---------------------------- MODULE Spec2Model ----------------------------
(***************************************************************************)
(* Wedding invitation site: the RSVP client gateway (React), the form and  *)
(* submission state of the page, and the Apps Script store endpoint.       *)
(*                                                                         *)
(* JavaScript values are tagged records; JavaScript strings are sequences  *)
(* of one-character strings, so that emptiness, prefixes, case and numeric *)
(* parsing are computed and not assumed.                                   *)
(***************************************************************************)
EXTENDS Integers, Sequences, FiniteSets, TLC

(***************************************************************************)
(* JavaScript values                                                       *)
(***************************************************************************)
Undefined == [t |-> "undefined"]
Null == [t |-> "null"]
NaN == [t |-> "NaN"]
Str(s) == [t |-> "string", s |-> s]
Num(n) == [t |-> "number", n |-> n]
Bool(b) == [t |-> "boolean", b |-> b]
\* An object is the sequence of its <<key, value>> pairs in insertion order.
Obj(p) == [t |-> "object", p |-> p]
Arr(a) == [t |-> "array", a |-> a]

EmptyStr == Str(<< >>)
EmptyObj == Obj(<< >>)

\* ToBoolean: undefined, null, NaN, "", 0 and false are falsy.
ToBoolean(v) ==
  CASE v.t = "undefined" -> FALSE
    [] v.t = "null" -> FALSE
    [] v.t = "NaN" -> FALSE
    [] v.t = "string" -> v.s # << >>
    [] v.t = "number" -> v.n # 0
    [] v.t = "boolean" -> v.b
    [] OTHER -> TRUE

\* a || b
Or(a, b) == IF ToBoolean(a) THEN a ELSE b

\* r.k throws a TypeError when r is undefined or null.
Throws(r) == r.t \in {"undefined", "null"}

\* r.k for a value on which property access does not throw; the keys used
\* here are no built-in property of a string, a number or an array.
Has(r, k) == r.t = "object" /\ \E i \in DOMAIN r.p : r.p[i][1] = k

Get(r, k) ==
  IF Has(r, k) THEN r.p[CHOOSE i \in DOMAIN r.p : r.p[i][1] = k][2]
  ELSE Undefined

\* r?.k
OptGet(r, k) == IF Throws(r) THEN Undefined ELSE Get(r, k)

Digits == {"0", "1", "2", "3", "4", "5", "6", "7", "8", "9"}

DigitVal(c) ==
  CASE c = "0" -> 0 [] c = "1" -> 1 [] c = "2" -> 2 [] c = "3" -> 3
    [] c = "4" -> 4 [] c = "5" -> 5 [] c = "6" -> 6 [] c = "7" -> 7
    [] c = "8" -> 8 [] c = "9" -> 9

RECURSIVE DecimalValue(_)
DecimalValue(s) ==
  IF s = << >> THEN 0
  ELSE 10 * DecimalValue(SubSeq(s, 1, Len(s) - 1)) + DigitVal(s[Len(s)])

RECURSIVE TrimStart(_)
TrimStart(s) ==
  IF s # << >> /\ Head(s) = " " THEN TrimStart(Tail(s)) ELSE s

RECURSIVE TrimEnd(_)
TrimEnd(s) ==
  IF s # << >> /\ s[Len(s)] = " " THEN TrimEnd(SubSeq(s, 1, Len(s) - 1)) ELSE s

AllDigits(s) == \A i \in DOMAIN s : s[i] \in Digits

\* StringToNumber over the alphabet of digits, "-", " " and letters that
\* start no numeric literal: whitespace is trimmed, the empty string is 0,
\* an optionally signed run of digits is its decimal value, the rest is NaN.
StringToNumber(s) ==
  LET u == TrimEnd(TrimStart(s)) IN
  IF u = << >> THEN Num(0)
  ELSE IF AllDigits(u) THEN Num(DecimalValue(u))
  ELSE IF Head(u) = "-" /\ Len(u) > 1 /\ AllDigits(Tail(u))
    THEN Num(0 - DecimalValue(Tail(u)))
  ELSE NaN

\* Number(v) for a primitive v.
Number(v) ==
  CASE v.t = "undefined" -> NaN
    [] v.t = "null" -> Num(0)
    [] v.t = "NaN" -> NaN
    [] v.t = "number" -> v
    [] v.t = "boolean" -> IF v.b THEN Num(1) ELSE Num(0)
    [] v.t = "string" -> StringToNumber(v.s)

DigitChar(d) ==
  CASE d = 0 -> "0" [] d = 1 -> "1" [] d = 2 -> "2" [] d = 3 -> "3"
    [] d = 4 -> "4" [] d = 5 -> "5" [] d = 6 -> "6" [] d = 7 -> "7"
    [] d = 8 -> "8" [] d = 9 -> "9"

RECURSIVE NatToString(_)
NatToString(n) ==
  IF n < 10 THEN << DigitChar(n) >>
  ELSE Append(NatToString(n \div 10), DigitChar(n % 10))

\* String(v) for a primitive v.
String(v) ==
  CASE v.t = "undefined" -> <<"u", "n", "d", "e", "f", "i", "n", "e", "d">>
    [] v.t = "null" -> <<"n", "u", "l", "l">>
    [] v.t = "NaN" -> <<"N", "a", "N">>
    [] v.t = "number" ->
         IF v.n < 0 THEN <<"-">> \o NatToString(0 - v.n) ELSE NatToString(v.n)
    [] v.t = "boolean" ->
         IF v.b THEN <<"t", "r", "u", "e">> ELSE <<"f", "a", "l", "s", "e">>
    [] v.t = "string" -> v.s

\* s.startsWith(p)
StartsWith(s, p) == Len(s) >= Len(p) /\ SubSeq(s, 1, Len(p)) = p

(***************************************************************************)
(* Property names and string literals of the source                        *)
(***************************************************************************)
k_name == <<"n", "a", "m", "e">>
k_Name == <<"N", "a", "m", "e">>
k_NAME == <<"N", "A", "M", "E">>
k_full_name == <<"f", "u", "l", "l", "_", "n", "a", "m", "e">>
k_email == <<"e", "m", "a", "i", "l">>
k_Email == <<"E", "m", "a", "i", "l">>
k_EMAIL == <<"E", "M", "A", "I", "L">>
k_attending == <<"a", "t", "t", "e", "n", "d", "i", "n", "g">>
k_Attending == <<"A", "t", "t", "e", "n", "d", "i", "n", "g">>
k_guests == <<"g", "u", "e", "s", "t", "s">>
k_Guests == <<"G", "u", "e", "s", "t", "s">>
k_GUESTS == <<"G", "U", "E", "S", "T", "S">>
k_message == <<"m", "e", "s", "s", "a", "g", "e">>
k_Message == <<"M", "e", "s", "s", "a", "g", "e">>
k_timestamp == <<"t", "i", "m", "e", "s", "t", "a", "m", "p">>
k_Timestamp == <<"T", "i", "m", "e", "s", "t", "a", "m", "p">>
k_time == <<"t", "i", "m", "e">>
k_Time == <<"T", "i", "m", "e">>
k_rows == <<"r", "o", "w", "s">>
k_error == <<"e", "r", "r", "o", "r">>
k_ok == <<"o", "k">>
k_action == <<"a", "c", "t", "i", "o", "n">>
k_entry == <<"e", "n", "t", "r", "y">>

s_http == <<"h", "t", "t", "p">>
s_Unknown_action == <<"U", "n", "k", "n", "o", "w", "n", " ", "a", "c", "t", "i", "o", "n">>
s_add == <<"a", "d", "d">>
s_list == <<"l", "i", "s", "t">>

(***************************************************************************)
(* Client gateway: pure helpers                                            *)
(***************************************************************************)
\* a && b
And(a, b) == IF ToBoolean(a) THEN b ELSE a

\* validateRSVP(entry): Boolean(entry && entry.name && entry.email)
validateRSVP_NameOnly(entry) == ToBoolean(And(entry, Get(entry, k_name)))

validateRSVP_EmailOnly(entry) == ToBoolean(And(entry, Get(entry, k_email)))

validateRSVP(entry) ==
  ToBoolean(And(And(entry, Get(entry, k_name)), Get(entry, k_email)))

\* The value fetchRSVPsFromSheets returns for a parsed body `data`:
\* Array.isArray(data) ? data : data?.rows || []
listResult(data) ==
  IF data.t = "array" THEN data ELSE Or(OptGet(data, k_rows), Arr(<< >>))

\* One element of rows.map(...) in refreshRSVPs, for a row r on which
\* property access does not throw.
normRow_NoCapitalised(r) ==
  Obj(<< <<k_name, Or(Or(Get(r, k_name), Get(r, k_full_name)), EmptyStr)>>,
         <<k_email, Or(Get(r, k_email), EmptyStr)>>,
         <<k_attending, Or(Get(r, k_attending), EmptyStr)>>,
         <<k_guests, Number(Or(Get(r, k_guests), Num(0)))>>,
         <<k_message, Or(Get(r, k_message), EmptyStr)>>,
         <<k_timestamp, Or(Or(Get(r, k_timestamp), Get(r, k_time)), EmptyStr)>> >>)

normRow(r) ==
  Obj(<< <<k_name,
           Or(Or(Or(Get(r, k_name), Get(r, k_Name)), Get(r, k_full_name)),
              EmptyStr)>>,
         <<k_email, Or(Or(Get(r, k_email), Get(r, k_Email)), EmptyStr)>>,
         <<k_attending,
           Or(Or(Get(r, k_attending), Get(r, k_Attending)), EmptyStr)>>,
         <<k_guests,
           Number(Or(Or(Get(r, k_guests), Get(r, k_Guests)), Num(0)))>>,
         <<k_message, Or(Or(Get(r, k_message), Get(r, k_Message)), EmptyStr)>>,
         <<k_timestamp,
           Or(Or(Or(Or(Get(r, k_timestamp), Get(r, k_Timestamp)),
                    Get(r, k_time)), Get(r, k_Time)), EmptyStr)>> >>)

\* rows.map(...) throws a TypeError when rows is no array (it has no map
\* method) or when an element is null.
mapThrows(rows) ==
  rows.t # "array" \/ \E i \in DOMAIN rows.a : Throws(rows.a[i])

normRows(rows) == Arr([i \in DOMAIN rows.a |-> normRow(rows.a[i])])

\* The predicate of norm.filter((x) => x.name || x.email)
keepRow_Both(x) == ToBoolean(And(Get(x, k_name), Get(x, k_email)))

keepRow(x) == ToBoolean(Or(Get(x, k_name), Get(x, k_email)))

filterRows(norm) == SelectSeq(norm.a, keepRow)

\* The list refreshRSVPs stores for a parsed body: the filtered normalized
\* rows, and the empty list when the try block throws.
loadedList(data) ==
  IF mapThrows(listResult(data)) THEN << >>
  ELSE filterRows(normRows(listResult(data)))

(***************************************************************************)
(* Bounds                                                                  *)
(***************************************************************************)
\* addRSVPToSheets calls in one behaviour
MaxSubmits == 2
\* list refreshes started by the Refresh button or by a login
MaxRefreshes == 2
\* rows of a list response drawn as input
MaxRows == 3
\* keys of a row object drawn as input
MaxKeys == 2

(***************************************************************************)
(* State                                                                   *)
(***************************************************************************)
VARIABLES
  SHEETS_WEB_APP_URL,  \* import.meta.env.VITE_SHEETS_WEB_APP_URL
  revision,            \* which copy of the page: "home", "appGet", "appPost"
  backend,             \* which Apps Script revision: "Code.gs", "unified"
  ADMIN_CODE,          \* import.meta.env?.VITE_ADMIN_CODE || ""
  adminParam,          \* the admin parameter of the page's URL, or null
  session,             \* sessionStorage.getItem("is_admin")
  showAdminDialog,
  adminError,          \* the error the login dialog shows
  form,                \* the RSVP form's state
  saveState,           \* "idle", "saving", "success", "error"
  isAdmin,
  showRSVPDialog,
  rsvps,               \* the loaded list
  loading,
  adds,                \* add requests in flight, in issue order
  lists,               \* list requests in flight, in issue order
  timers,              \* pending setTimeout(() => setSaveState("idle"))
  sheet,               \* the rows of the "RSVPs" sheet
  addCalls,            \* calls of addRSVPToSheets so far
  addRequests,         \* fetch calls issued by addRSVPToSheets so far
  listRequests,        \* fetch calls issued by fetchRSVPsFromSheets so far
  lastAdd,             \* how the last submit event or add request ended
  lastList,            \* how the last refreshRSVPs call that ended, ended
  accepted,            \* add requests the store has answered {ok: true}
  served,              \* the last request sent to the store directly
  now,                 \* the instant the clock shows
  pc,                  \* "ui" for the page; a step name for a pure function
  arg,                 \* the input of the pure function under check
  ret                  \* its result

vars ==
  << SHEETS_WEB_APP_URL, revision, backend, ADMIN_CODE, adminParam, session,
     showAdminDialog, adminError, form, saveState, isAdmin, showRSVPDialog, rsvps, loading, adds, lists, timers, sheet, addCalls,
     addRequests, listRequests, lastAdd, lastList, accepted, served, now,
     pc, arg, ret >>

config == << SHEETS_WEB_APP_URL, revision, backend, ADMIN_CODE, adminParam >>
gate == << session, showAdminDialog, adminError >>
pure == << pc, arg, ret >>
page == << form, saveState, isAdmin, showRSVPDialog, rsvps, loading, timers >>
wire ==
  << adds, lists, sheet, addCalls, addRequests, listRequests, lastAdd,
     lastList, accepted, served, now >>

s_A == <<"A">>
s_Yes == <<"Y", "e", "s">>
s_relative == <<"/", "/", "x">>
s_https == <<"h", "t", "t", "p", "s", ":", "/", "/", "x">>

\* The values the build can give the endpoint URL: unset, empty, a
\* scheme-relative URL (it does not start with "http", and fetch resolves
\* it against the page's scheme), and an https URL.
UrlValues == {Undefined, EmptyStr, Str(s_relative), Str(s_https)}

Revisions == {"home", "appGet", "appPost"}
Backends == {"Code.gs", "unified"}

\* isSheetsConfigured()
isSheetsConfigured(url) == url.t = "string" /\ StartsWith(url.s, s_http)

\* The form's initial state (useState in RSVPDialog / RSVP).
initialForm(rev) ==
  IF rev = "home"
  THEN Obj(<< <<k_name, EmptyStr>>, <<k_email, EmptyStr>>,
              <<k_attending, EmptyStr>>, <<k_guests, EmptyStr>>,
              <<k_message, EmptyStr>> >>)
  ELSE Obj(<< <<k_name, EmptyStr>>, <<k_email, EmptyStr>>,
              <<k_attending, Str(s_Yes)>>, <<k_guests, Num(1)>>,
              <<k_message, EmptyStr>> >>)

\* { ...o, [k]: v }: an existing key keeps its place, a new one goes last.
Set(o, k, v) ==
  IF Has(o, k)
  THEN Obj([i \in DOMAIN o.p |-> IF o.p[i][1] = k THEN <<k, v>> ELSE o.p[i]])
  ELSE Obj(Append(o.p, <<k, v>>))

RemoveAt(s, i) == SubSeq(s, 1, i - 1) \o SubSeq(s, i + 1, Len(s))

(***************************************************************************)
(* Store endpoint (Apps Script)                                            *)
(***************************************************************************)
UpperCase ==
  <<"A", "B", "C", "D", "E", "F", "G", "H", "I", "J", "K", "L", "M",
    "N", "O", "P", "Q", "R", "S", "T", "U", "V", "W", "X", "Y", "Z">>
LowerCase ==
  <<"a", "b", "c", "d", "e", "f", "g", "h", "i", "j", "k", "l", "m",
    "n", "o", "p", "q", "r", "s", "t", "u", "v", "w", "x", "y", "z">>

LowerChar(c) ==
  IF \E i \in DOMAIN UpperCase : UpperCase[i] = c
  THEN LowerCase[CHOOSE i \in DOMAIN UpperCase : UpperCase[i] = c]
  ELSE c

\* s.toLowerCase()
ToLowerCase(s) == [i \in DOMAIN s |-> LowerChar(s[i])]

\* new Date().toISOString() at instant t, abbreviated to the instant's
\* count between the "T" and the "Z" of the ISO-8601 form.
toISOString(t) == <<"T">> \o NatToString(t) \o <<"Z">>

s_TypeError == <<"T", "y", "p", "e", "E", "r", "r", "o", "r">>
s_Exception == <<"E", "x", "c", "e", "p", "t", "i", "o", "n">>

headers ==
  << Str(k_name), Str(k_email), Str(k_attending), Str(k_guests),
     Str(k_message), Str(k_timestamp) >>

\* if (sh.getLastRow() === 0) sh.getRange(...).setValues([headers])
withHeaders_Always(sh) == Append(sh, headers)

withHeaders(sh) == IF Len(sh) = 0 THEN << headers >> ELSE sh

\* An add that leaves one row for each name and email.
addRSVP_Dedup(sh, entry, t) ==
  IF \E i \in DOMAIN sh :
       /\ sh[i][1] = Or(Get(entry, k_name), EmptyStr)
       /\ sh[i][2] = Or(Get(entry, k_email), EmptyStr)
  THEN sh
  ELSE Append(withHeaders(sh),
         << Or(Get(entry, k_name), EmptyStr),
            Or(Get(entry, k_email), EmptyStr),
            Or(Get(entry, k_attending), EmptyStr),
            Number(Or(Get(entry, k_guests), Num(0))),
            Or(Get(entry, k_message), EmptyStr),
            Or(Get(entry, k_timestamp), Str(toISOString(t))) >>)

\* addRSVP_(entry) on the sheet sh at server time t, for an entry on which
\* property access does not throw: the header row is written when the
\* sheet has no row, then the entry's row is appended.
addRSVP_(sh, entry, t) ==
  Append(withHeaders(sh),
         << Or(Get(entry, k_name), EmptyStr),
            Or(Get(entry, k_email), EmptyStr),
            Or(Get(entry, k_attending), EmptyStr),
            Number(Or(Get(entry, k_guests), Num(0))),
            Or(Get(entry, k_message), EmptyStr),
            Or(Get(entry, k_timestamp), Str(toISOString(t))) >>)

\* headers.forEach((h, idx) => obj[String(h).trim()] = row[idx])
RECURSIVE rowObject(_, _, _)
rowObject(hs, row, n) ==
  IF n = 0 THEN EmptyObj
  ELSE Set(rowObject(hs, row, n - 1),
           TrimEnd(TrimStart(String(hs[n]))), row[n])

\* A listing that returns the newest row first.
listRSVPs_NewestFirst(sh) ==
  IF Len(sh) < 2 THEN Arr(<< >>)
  ELSE Arr([i \in 1..(Len(sh) - 1) |->
             rowObject(sh[1], sh[Len(sh) + 1 - i], Len(sh[1]))])

\* listRSVPs_(): one object per data row, keyed by the header row.
listRSVPs_(sh) ==
  IF Len(sh) < 2 THEN Arr(<< >>)
  ELSE Arr([i \in 1..(Len(sh) - 1) |->
             rowObject(sh[1], sh[i + 1], Len(sh[1]))])

okBody == Obj(<< <<k_ok, Bool(TRUE)>> >>)
errorBody(msg) == Obj(<< <<k_error, Str(msg)>> >>)
\* The page Apps Script serves when an exception escapes the handler: its
\* body is HTML, so res.json() rejects.
htmlPage == [t |-> "html"]

\* A request as the script sees it: e.parameter (always an object) and
\* e.postData.contents: noBody when the request carries no postData,
\* emptyBody for empty contents, badJson for contents JSON.parse rejects,
\* and otherwise the value the contents parse to.
noBody == [t |-> "nobody"]
emptyBody == [t |-> "emptybody"]
badJson == [t |-> "badjson"]
GetRequest(params) == [method |-> "GET", parameter |-> params, body |-> noBody]
PostRequest(body) == [method |-> "POST", parameter |-> EmptyObj, body |-> body]

s_SyntaxError == <<"S", "y", "n", "t", "a", "x", "E", "r", "r", "o", "r">>

\* Code.gs doGet / doPost; the whole of each is inside its try.
\* down: SpreadsheetApp throws.
CodeGs(req, sh, down, t) ==
  IF req.method = "GET"
  THEN LET action == Or(Get(req.parameter, k_action), EmptyStr) IN
       IF action.t # "string"
       THEN [sheet |-> sh, resp |-> errorBody(s_TypeError)]
       ELSE IF ToLowerCase(action.s) = s_list
       THEN IF down THEN [sheet |-> sh, resp |-> errorBody(s_Exception)]
            ELSE [sheet |-> sh, resp |-> listRSVPs_(sh)]
       ELSE [sheet |-> sh, resp |-> errorBody(s_Unknown_action)]
  ELSE LET body == IF req.body \in {noBody, emptyBody} THEN EmptyObj
                   ELSE req.body
       IN
       IF body = badJson
       THEN [sheet |-> sh, resp |-> errorBody(s_SyntaxError)]
       ELSE IF Throws(body)
       THEN [sheet |-> sh, resp |-> errorBody(s_TypeError)]
       ELSE LET action == Or(Get(body, k_action), EmptyStr) IN
            IF action.t # "string"
            THEN [sheet |-> sh, resp |-> errorBody(s_TypeError)]
            ELSE IF ToLowerCase(action.s) = s_add
            THEN IF down THEN [sheet |-> sh, resp |-> errorBody(s_Exception)]
                 ELSE [sheet |->
                         addRSVP_(sh, Or(Get(body, k_entry), EmptyObj), t),
                       resp |-> okBody]
            ELSE [sheet |-> sh, resp |-> errorBody(s_Unknown_action)]

\* handleRequest of the unified revision. The action is read outside the
\* try, so an exception there escapes; list and add run inside it.
handleRequest(req, sh, down, t) ==
  LET hasPost == req.body # noBody
      fromQuery == Get(req.parameter, k_action)
      parseThrows == req.body \in {emptyBody, badJson}
      fromBody == IF hasPost /\ ~parseThrows THEN OptGet(req.body, k_action)
                  ELSE Undefined
      action == Or(Or(fromQuery, fromBody), EmptyStr)
  IN
  IF (~ToBoolean(fromQuery) /\ hasPost /\ (parseThrows \/ Throws(req.body)))
     \/ action.t # "string"
  THEN [sheet |-> sh, resp |-> htmlPage]
  ELSE IF ToLowerCase(action.s) = s_list
  THEN IF down THEN [sheet |-> sh, resp |-> errorBody(s_Exception)]
       ELSE [sheet |-> sh, resp |-> listRSVPs_(sh)]
  ELSE IF ToLowerCase(action.s) = s_add
  THEN LET p == req.parameter
           hasContents == hasPost /\ req.body # emptyBody
           entry ==
             IF hasContents THEN OptGet(req.body, k_entry)
             ELSE Obj(<< <<k_name, Or(Get(p, k_name), EmptyStr)>>,
                         <<k_email, Or(Get(p, k_email), EmptyStr)>>,
                         <<k_attending, Or(Get(p, k_attending), EmptyStr)>>,
                         <<k_guests, Number(Or(Get(p, k_guests), Num(0)))>>,
                         <<k_message, Or(Get(p, k_message), EmptyStr)>>,
                         <<k_timestamp,
                           Or(Get(p, k_timestamp), Str(toISOString(t)))>> >>)
       IN
       IF hasContents /\ req.body = badJson
       THEN [sheet |-> sh, resp |-> errorBody(s_SyntaxError)]
       ELSE IF hasContents /\ Throws(req.body)
       THEN [sheet |-> sh, resp |-> errorBody(s_TypeError)]
       ELSE IF down THEN [sheet |-> sh, resp |-> errorBody(s_Exception)]
       ELSE IF Throws(entry)
       THEN [sheet |-> withHeaders(sh), resp |-> errorBody(s_TypeError)]
       ELSE [sheet |-> addRSVP_(sh, entry, t), resp |-> okBody]
  ELSE [sheet |-> sh, resp |-> errorBody(s_Unknown_action)]

\* The deployed web app: doGet / doPost of the backend in use.
serve(be, req, sh, down, t) ==
  IF be = "Code.gs" THEN CodeGs(req, sh, down, t)
  ELSE handleRequest(req, sh, down, t)

(***************************************************************************)
(* Client gateway: requests                                                *)
(***************************************************************************)
\* The configuration check at the head of addRSVPToSheets: the GET
\* revisions test !SHEETS_WEB_APP_URL, the POST revision isSheetsConfigured().
addConfigured(rev, url) ==
  IF rev = "appPost" THEN isSheetsConfigured(url) ELSE ToBoolean(url)

\* JSON.parse(JSON.stringify(entry)) for an entry of primitives: a property
\* whose value is undefined is dropped, NaN becomes null.
jsonEntry(entry) ==
  Obj([i \in DOMAIN SelectSeq(entry.p, LAMBDA q : q[2] # Undefined) |->
        LET q == SelectSeq(entry.p, LAMBDA x : x[2] # Undefined)[i] IN
        IF q[2] = NaN THEN <<q[1], Null>> ELSE q])

\* The request addRSVPToSheets builds for entry at instant t.
addRequest(rev, entry, t) ==
  IF rev = "appPost"
  THEN PostRequest(Obj(<< <<k_action, Str(s_add)>>,
                          <<k_entry, jsonEntry(entry)>> >>))
  ELSE GetRequest(Obj(<<
         <<k_action, Str(s_add)>>,
         <<k_name, Str(String(Or(Get(entry, k_name), EmptyStr)))>>,
         <<k_email, Str(String(Or(Get(entry, k_email), EmptyStr)))>>,
         <<k_attending, Str(String(Or(Get(entry, k_attending), EmptyStr)))>>,
         <<k_guests,
           IF ToBoolean(Get(entry, k_guests))
           THEN Str(String(Get(entry, k_guests))) ELSE Str(<<"0">>)>>,
         <<k_message, Str(String(Or(Get(entry, k_message), EmptyStr)))>>,
         <<k_timestamp, Str(toISOString(t))>> >>))

\* The fetch calls of one addRSVPToSheets call that passed the check.
addFetches_Retry(rev, entry, t) ==
  << addRequest(rev, entry, t), addRequest(rev, entry, t) >>

addFetches(rev, entry, t) == << addRequest(rev, entry, t) >>

listRequest == GetRequest(Obj(<< <<k_action, Str(s_list)>> >>))

\* How an in-flight request can end for the client: "response" delivers
\* the body the script returned (status 200), "http_error" is a non-2xx
\* status, "network_error" a rejected fetch, "bad_json" a 2xx body that
\* res.json() rejects.
Outcomes == {"response", "http_error", "network_error", "bad_json"}

\* The add request resolved and addRSVPToSheets returned (did not throw):
\* res.ok and a body that parses.
addSucceeded_IgnoreStatus(outcome, resp) ==
  outcome \in {"response", "http_error"} /\ resp # htmlPage

addSucceeded(outcome, resp) == outcome = "response" /\ resp # htmlPage

(***************************************************************************)
(* The page: Init and the handlers                                         *)
(***************************************************************************)
noRequest == [req |-> Undefined, resp |-> Undefined]

SaveStates == {"idle", "saving", "success", "error"}

\* What lastAdd records: nothing yet; handleSubmit's alert for an incomplete
\* form; addRSVPToSheets throwing at its configuration check; and the end
\* of an add request, with the body when one was parsed.
noOutcome == [outcome |-> "none", resp |-> Undefined]
rejectedOutcome == [outcome |-> "invalid", resp |-> Undefined]
unconfiguredOutcome == [outcome |-> "unconfigured", resp |-> Undefined]
requestOutcome(outcome, resp) ==
  [outcome |-> outcome,
   resp |-> IF outcome = "response" /\ resp # htmlPage THEN resp ELSE Undefined]

s_1 == <<"1">>
s_true == <<"t", "r", "u", "e">>
s_false == <<"f", "a", "l", "s", "e">>
s_secret == <<"s", "3">>
s_x == <<"x">>

\* detectAdminFromURL() for the admin parameter token and ADMIN_CODE code
detectAdminFromURL_Truthy(token, code) == ToBoolean(token)

detectAdminFromURL(token, code) ==
  IF ~ToBoolean(token) THEN FALSE
  ELSE IF ToBoolean(code) THEN token = code
  ELSE token = Str(s_1)

\* The page after the mount of a first visit, with no admin code
\* configured: the mount effect has set isAdmin from the URL token, and the
\* isAdmin effect has started a refresh for an admin.
Init ==
  /\ SHEETS_WEB_APP_URL \in UrlValues
  /\ revision \in Revisions
  /\ backend \in Backends
  /\ form = initialForm(revision)
  /\ saveState = "idle"
  /\ ADMIN_CODE = EmptyStr
  /\ adminParam \in {Null, Str(s_1)}
  /\ isAdmin = detectAdminFromURL(adminParam, ADMIN_CODE)
  /\ session = IF isAdmin THEN Str(s_true) ELSE Null
  /\ showAdminDialog = FALSE
  /\ adminError = ""
  /\ showRSVPDialog = FALSE
  /\ rsvps = << >>
  /\ loading = (isAdmin /\ isSheetsConfigured(SHEETS_WEB_APP_URL))
  /\ adds = << >>
  /\ lists = IF isAdmin /\ isSheetsConfigured(SHEETS_WEB_APP_URL)
             THEN << [finish |-> FALSE] >>
             ELSE << >>
  /\ timers = 0
  /\ sheet = << >>
  /\ addCalls = 0
  /\ addRequests = 0
  /\ listRequests = IF isAdmin /\ isSheetsConfigured(SHEETS_WEB_APP_URL)
                    THEN 1 ELSE 0
  /\ lastAdd = noOutcome
  /\ accepted = 0
  /\ served = noRequest
  /\ lastList = IF isAdmin /\ ~isSheetsConfigured(SHEETS_WEB_APP_URL)
                THEN "failed" ELSE "none"
  /\ now = 0
  /\ pc = "ui"
  /\ arg = Undefined
  /\ ret = Undefined

\* The RSVP form fields and the submit button are rendered: always on the
\* inline RSVP page, and in the dialog when it is open for a guest.
formShown == revision # "home" \/ (showRSVPDialog /\ ~isAdmin)

\* The admin tools (Refresh, exports) are rendered.
adminToolsShown == isAdmin /\ (revision # "home" \/ showRSVPDialog)

FormNames == {EmptyStr, Str(s_A)}
FormKeys == {k_name, k_email}

\* update(k, v): an edit of the name or the email field.
UpdateForm ==
  /\ pc = "ui"
  /\ formShown
  /\ \E k \in FormKeys, v \in FormNames :
       /\ Get(form, k) # v
       /\ form' = Set(form, k, v)
  /\ UNCHANGED << config, gate, pure, wire, saveState, isAdmin, showRSVPDialog,
                  rsvps, loading, timers >>

\* What follows `await onSubmit(...)` on the inline RSVP page once
\* handleRSVPSubmit has run to its end: its finally block arms the idle
\* reset and handleSubmit resets the form. The dialog has neither.
FinishSubmit ==
  IF revision = "home" THEN UNCHANGED << timers, form >>
  ELSE timers' = timers + 1 /\ form' = initialForm(revision)

\* refreshRSVPs() from a render in which isAdmin is true. finish: the
\* caller awaits it and FinishSubmit follows its end.
refreshRSVPs(finish) ==
  IF isSheetsConfigured(SHEETS_WEB_APP_URL)
  THEN /\ loading' = TRUE
       /\ lists' = Append(lists, [finish |-> finish])
       /\ listRequests' = listRequests + 1
       /\ UNCHANGED << rsvps, lastList >>
       /\ UNCHANGED << timers, form >>
  ELSE /\ loading' = FALSE
       /\ rsvps' = << >>
       /\ lastList' = "failed"
       /\ UNCHANGED << lists, listRequests >>
       /\ IF finish THEN FinishSubmit ELSE UNCHANGED << timers, form >>

\* The submit event of the form: handleSubmit, handleRSVPSubmit and
\* addRSVPToSheets up to its await of fetch. An incomplete form ends it at
\* the alert.
Submit ==
  /\ pc = "ui"
  /\ formShown
  /\ saveState # "saving"
  /\ IF ~validateRSVP(form)
     THEN /\ lastAdd' = rejectedOutcome
          /\ UNCHANGED << config, gate, pure, page, adds, lists, sheet, accepted, served, addCalls,
                          addRequests, listRequests, lastList, now >>
     ELSE /\ addCalls < MaxSubmits
          /\ LET entry == Set(form, k_timestamp, Str(toISOString(now)))
                 sent == addFetches(revision, entry, now)
             IN
             /\ addCalls' = addCalls + 1
             /\ IF addConfigured(revision, SHEETS_WEB_APP_URL)
                THEN /\ saveState' = "saving"
                     /\ adds' = adds \o
                          [i \in DOMAIN sent |->
                            [req |-> sent[i], admin |-> isAdmin,
                             phase |-> "sent", resp |-> Undefined]]
                     /\ addRequests' = addRequests + Len(sent)
                     /\ UNCHANGED << timers, form, lastAdd >>
                ELSE /\ saveState' = "error"
                     /\ lastAdd' = unconfiguredOutcome
                     /\ FinishSubmit
                     /\ UNCHANGED << adds, addRequests >>
          /\ UNCHANGED << config, gate, pure, isAdmin, showRSVPDialog, rsvps,
                          loading, lists, sheet, accepted, served, listRequests, lastList, now >>

\* The web app runs the script on an add request.
ServeAdd ==
  /\ pc = "ui"
  /\ \E i \in DOMAIN adds, down \in BOOLEAN :
       /\ adds[i].phase = "sent"
       /\ LET r == serve(backend, adds[i].req, sheet, down, now) IN
          /\ sheet' = r.sheet
          /\ accepted' = IF r.resp = okBody THEN accepted + 1 ELSE accepted
          /\ adds' = [adds EXCEPT ![i].phase = "handled", ![i].resp = r.resp]
  /\ UNCHANGED << config, gate, pure, page, lists, addCalls, addRequests,
                  listRequests, lastAdd, lastList, served, now >>

\* An add request ends and handleRSVPSubmit resumes after its await.
ResolveAdd ==
  /\ pc = "ui"
  /\ \E i \in DOMAIN adds, outcome \in Outcomes :
       /\ outcome = "response" => adds[i].phase = "handled"
       /\ adds' = RemoveAt(adds, i)
       /\ lastAdd' = requestOutcome(outcome, adds[i].resp)
       /\ IF addSucceeded(outcome, adds[i].resp)
          THEN /\ saveState' = "success"
               /\ IF adds[i].admin
                  THEN refreshRSVPs(revision # "home")
                  ELSE /\ FinishSubmit
                       /\ UNCHANGED << rsvps, loading, lists, listRequests,
                                       lastList >>
          ELSE /\ saveState' = "error"
               /\ FinishSubmit
               /\ UNCHANGED << rsvps, loading, lists, listRequests, lastList >>
  /\ UNCHANGED << config, gate, pure, isAdmin, showRSVPDialog, sheet, accepted, served, addCalls,
                  addRequests, now >>

\* setTimeout(() => setSaveState("idle"), ...) fires.
IdleTimer ==
  /\ pc = "ui"
  /\ timers > 0
  /\ timers' = timers - 1
  /\ saveState' = "idle"
  /\ UNCHANGED << config, gate, pure, wire, form, isAdmin, showRSVPDialog, rsvps,
                  loading >>

\* The RSVP button of the last page opens the dialog.
OpenRSVP ==
  /\ pc = "ui"
  /\ revision = "home"
  /\ ~showRSVPDialog
  /\ showRSVPDialog' = TRUE
  /\ UNCHANGED << config, gate, pure, wire, form, saveState, isAdmin, rsvps,
                  loading, timers >>

\* The dialog's Close button: handleClose, then handleCloseRSVP.
CloseRSVP ==
  /\ pc = "ui"
  /\ revision = "home"
  /\ showRSVPDialog
  /\ form' = initialForm(revision)
  /\ showRSVPDialog' = FALSE
  /\ saveState' = "idle"
  /\ UNCHANGED << config, gate, pure, wire, isAdmin, rsvps, loading, timers >>

\* The OK button of SubmitStatusModal, open on success or error.
DismissStatus ==
  /\ pc = "ui"
  /\ revision = "home"
  /\ showRSVPDialog
  /\ saveState \in {"success", "error"}
  /\ form' = initialForm(revision)
  /\ saveState' = "idle"
  /\ showRSVPDialog' = FALSE
  /\ UNCHANGED << config, gate, pure, wire, isAdmin, rsvps, loading, timers >>

\* fetchRSVPsFromSheets throws or rejects: the status is not 2xx, the
\* transport fails, or res.json() rejects the body.
listFailed(outcome, resp) == outcome # "response" \/ resp = htmlPage

\* The catch block left without setRsvps([]).
refreshedList_KeepOnError(outcome, resp) ==
  IF listFailed(outcome, resp) THEN rsvps ELSE loadedList(resp)

\* The list refreshRSVPs stores when its request has ended.
refreshedList(outcome, resp) ==
  IF listFailed(outcome, resp) THEN << >> ELSE loadedList(resp)

\* The Refresh button is rendered and not disabled.
refreshEnabled == adminToolsShown /\ ~loading

\* The Admin login button of the header, shown to a viewer who is no admin.
OpenAdminLogin ==
  /\ pc = "ui"
  /\ ~isAdmin
  /\ showAdminDialog' = TRUE
  /\ UNCHANGED << config, pure, page, wire, session, adminError >>

\* closeAdminLogin, then the dialog's effect on !open.
CloseAdminLogin ==
  /\ pc = "ui"
  /\ showAdminDialog
  /\ showAdminDialog' = FALSE
  /\ adminError' = ""
  /\ UNCHANGED << config, pure, page, wire, session >>

\* const expected = ADMIN_CODE || "1"
expectedCode_AnyOne == Str(s_1)

expectedCode == Or(ADMIN_CODE, Str(s_1))

s_Incorrect == "Incorrect code. Please try again."

\* submit of the login dialog with the typed code; on the expected code
\* confirmAdminLogin, the isAdmin effect and the dialog's effect on !open.
LoginWith(code) ==
  /\ pc = "ui"
  /\ showAdminDialog
  /\ IF code = expectedCode
     THEN /\ listRequests < MaxRefreshes
          /\ session' = Str(s_true)
          /\ isAdmin' = TRUE
          /\ showAdminDialog' = FALSE
          /\ adminError' = ""
          /\ IF ~isAdmin THEN refreshRSVPs(FALSE)
             ELSE UNCHANGED << rsvps, loading, lists, listRequests, lastList,
                               timers, form >>
     ELSE /\ adminError' = s_Incorrect
          /\ UNCHANGED << session, isAdmin, showAdminDialog, rsvps, loading,
                          lists, listRequests, lastList, timers, form >>
  /\ UNCHANGED << config, pure, saveState, showRSVPDialog, adds, sheet, accepted, served,
                  addCalls, addRequests, lastAdd, now >>

\* The codes typed into the login dialog.
TypedCodes == { EmptyStr, Str(s_1), Str(s_secret), Str(s_x) }

Login == \E code \in TypedCodes : LoginWith(code)

\* logoutAdmin without sessionStorage.removeItem("is_admin").
Logout_KeepGrant ==
  /\ pc = "ui"
  /\ isAdmin
  /\ isAdmin' = FALSE
  /\ rsvps' = << >>
  /\ UNCHANGED << config, pure, wire, form, saveState, showRSVPDialog,
                  loading, timers, session, showAdminDialog, adminError >>

\* logoutAdmin, then the isAdmin effect.
Logout ==
  /\ pc = "ui"
  /\ isAdmin
  /\ session' = Null
  /\ isAdmin' = FALSE
  /\ rsvps' = << >>
  /\ UNCHANGED << config, pure, wire, form, saveState, showRSVPDialog,
                  loading, timers, showAdminDialog, adminError >>

\* The Refresh button.
Refresh ==
  /\ pc = "ui"
  /\ refreshEnabled
  /\ listRequests < MaxRefreshes
  /\ refreshRSVPs(FALSE)
  /\ UNCHANGED << config, gate, pure, saveState, isAdmin, showRSVPDialog, adds,
                  sheet, accepted, served, addCalls, addRequests, lastAdd, now >>

\* A list request ends and refreshRSVPs resumes after its await. Listing
\* reads the sheet and changes nothing, so the script's run is part of the
\* step its response arrives in.
ResolveList ==
  /\ pc = "ui"
  /\ \E j \in DOMAIN lists, outcome \in Outcomes, down \in BOOLEAN :
       LET r == serve(backend, listRequest, sheet, down, now) IN
       /\ lists' = RemoveAt(lists, j)
       /\ rsvps' = refreshedList(outcome, r.resp)
       /\ loading' = FALSE
       /\ lastList' = IF listFailed(outcome, r.resp) THEN "failed" ELSE "loaded"
       /\ IF lists[j].finish THEN FinishSubmit ELSE UNCHANGED << timers, form >>
  /\ UNCHANGED << config, gate, pure, saveState, isAdmin, showRSVPDialog, adds,
                  sheet, accepted, served, addCalls, addRequests, listRequests, lastAdd, now >>

Next ==
  \/ UpdateForm
  \/ Submit
  \/ ServeAdd
  \/ ResolveAdd
  \/ IdleTimer
  \/ OpenRSVP
  \/ CloseRSVP
  \/ DismissStatus
  \/ ResolveList

\* The page of a visitor whose admin grant is the one found at mount.
Spec == Init /\ [][Next]_vars

\* The page with the login dialog and the admin's Refresh button as well.
NextAdmin ==
  \/ Next
  \/ OpenAdminLogin
  \/ CloseAdminLogin
  \/ Login
  \/ Logout
  \/ Refresh

SpecAdmin == Init /\ [][NextAdmin]_vars

(***************************************************************************)
(* validateRSVP on its own                                                 *)
(***************************************************************************)
s_space == <<" ">>
s_b_x_com == <<"b", "@", "x", ".", "c", "o", "m">>

\* A field of an entry handed to validateRSVP: left out, or one of these.
absent == [t |-> "absent"]
FieldValues == {absent, Undefined, Null, EmptyStr, Str(s_A), Str(s_space)}

\* The fields validateRSVP does not read, as the dialog's form, as the
\* inline page's form, and left out.
OtherFields ==
  { << >>,
    << <<k_attending, EmptyStr>>, <<k_guests, EmptyStr>>,
       <<k_message, EmptyStr>> >>,
    << <<k_attending, Str(s_Yes)>>, <<k_guests, Num(1)>>,
       <<k_message, Str(s_A)>> >> }

field(k, v) == IF v = absent THEN << >> ELSE << <<k, v>> >>

ValidateInputs ==
  {Undefined, Null}
    \cup { Obj(field(k_name, n) \o field(k_email, e) \o o) :
             n \in FieldValues, e \in FieldValues, o \in OtherFields }

\* The page at rest, for a function that is run on its own.
AtRest ==
  /\ SHEETS_WEB_APP_URL = Str(s_https)
  /\ revision = "home"
  /\ backend = "unified"
  /\ form = initialForm("home")
  /\ saveState = "idle"
  /\ showRSVPDialog = FALSE
  /\ rsvps = << >>
  /\ adds = << >>
  /\ lists = << >>
  /\ timers = 0
  /\ sheet = << >>
  /\ addCalls = 0
  /\ addRequests = 0
  /\ lastAdd = noOutcome
  /\ accepted = 0
  /\ served = noRequest
  /\ lastList = "none"
  /\ now = 0
  /\ ADMIN_CODE = EmptyStr
  /\ adminParam = Null
  /\ showAdminDialog = FALSE
  /\ adminError = ""

InitValidate ==
  /\ AtRest
  /\ isAdmin = FALSE
  /\ session = Null
  /\ loading = FALSE
  /\ listRequests = 0
  /\ pc = "validateRSVP"
  /\ arg \in ValidateInputs
  /\ ret = Undefined

Validate ==
  /\ pc = "validateRSVP"
  /\ ret' = Bool(validateRSVP(arg))
  /\ pc' = "validated"
  /\ UNCHANGED << config, gate, page, wire, arg >>

NextValidate == Validate

SpecValidate == InitValidate /\ [][NextValidate]_vars

(***************************************************************************)
(* refreshRSVPs after the response: shaping, normalization, filter         *)
(***************************************************************************)
s_3 == <<"3">>
s_minus1 == <<"-", "1">>

\* The keys a row object is drawn with, in a fixed order.
RowKeys ==
  << k_name, k_Name, k_NAME, k_full_name, k_email, k_Email, k_EMAIL,
     k_attending, k_Attending, k_guests, k_Guests, k_GUESTS, k_message,
     k_Message, k_timestamp, k_Timestamp, k_time, k_Time >>

TextValues == {EmptyStr, Str(s_A), Str(s_b_x_com)}
GuestValues ==
  {Null, EmptyStr, Str(s_3), Str(s_A), Str(s_minus1), Num(0), Num(2),
   Num(0 - 1)}

\* The choices of at most MaxKeys keys, as increasing positions of RowKeys.
KeyChoices ==
  UNION { { c \in [1..n -> DOMAIN RowKeys] :
              \A i \in 1..n : \A j \in 1..n : i < j => c[i] < c[j] } :
          n \in 0..MaxKeys }

\* Row objects of at most MaxKeys keys with text cells.
RichRows ==
  { Obj([i \in DOMAIN c |-> <<RowKeys[c[i]], v[i]>>]) :
      c \in KeyChoices, v \in [1..MaxKeys -> TextValues] }

\* Row objects that hold a guests cell and nothing else.
GuestRows ==
  { Obj(<< <<k, v>> >>) : k \in {k_guests, k_Guests, k_GUESTS},
                          v \in GuestValues }

\* Rows for the lists of several rows: null, rows the filter drops and
\* rows it keeps.
SimpleRows ==
  { Null, EmptyObj,
    Obj(<< <<k_name, Str(s_A)>> >>),
    Obj(<< <<k_Email, Str(s_b_x_com)>> >>),
    Obj(<< <<k_name, EmptyStr>>, <<k_email, EmptyStr>> >>),
    Obj(<< <<k_NAME, Str(s_A)>> >>),
    Obj(<< <<k_message, Str(s_A)>> >>) }

RowLists == UNION { [1..n -> SimpleRows] : n \in 0..MaxRows }

\* Bodies that are neither an array nor an object holding one.
OtherBodies ==
  { Null, Num(1), Str(s_A), Bool(TRUE), Bool(FALSE), EmptyObj,
    errorBody(s_Unknown_action), okBody,
    Obj(<< <<k_rows, Str(s_A)>> >>), Obj(<< <<k_rows, Null>> >>),
    Obj(<< <<k_rows, Num(0)>> >>), Obj(<< <<k_rows, Num(1)>> >>),
    Obj(<< <<k_rows, EmptyStr>> >>), Obj(<< <<k_rows, EmptyObj>> >>) }

\* The parsed JSON bodies a list response is drawn from.
Bodies ==
  { Arr(<< r >>) : r \in RichRows \cup GuestRows }
    \cup { Arr(l) : l \in RowLists }
    \cup { Obj(<< <<k_rows, Arr(l)>> >>) : l \in RowLists }
    \cup OtherBodies

\* An admin's page whose list request has ended with the parsed body arg.
InitNorm ==
  /\ AtRest
  /\ isAdmin = TRUE
  /\ session = Str(s_true)
  /\ loading = TRUE
  /\ listRequests = 1
  /\ pc = "fetchRSVPsFromSheets"
  /\ arg \in Bodies
  /\ ret = Undefined

\* fetchRSVPsFromSheets returns.
ReturnRows ==
  /\ pc = "fetchRSVPsFromSheets"
  /\ ret' = listResult(arg)
  /\ pc' = "map"
  /\ UNCHANGED << config, gate, page, wire, arg >>

\* rows.map(...): the normalized rows, or the TypeError the catch block
\* turns into an empty list.
MapRows ==
  /\ pc = "map"
  /\ IF mapThrows(ret)
     THEN /\ rsvps' = << >>
          /\ loading' = FALSE
          /\ pc' = "caught"
          /\ UNCHANGED ret
     ELSE /\ ret' = normRows(ret)
          /\ pc' = "filter"
          /\ UNCHANGED << rsvps, loading >>
  /\ UNCHANGED << config, gate, wire, arg, form, saveState, isAdmin, showRSVPDialog,
                  timers >>

\* setRsvps(norm.filter(...)) and the finally block.
FilterRows ==
  /\ pc = "filter"
  /\ rsvps' = filterRows(ret)
  /\ loading' = FALSE
  /\ pc' = "done"
  /\ UNCHANGED << config, gate, wire, arg, ret, form, saveState, isAdmin,
                  showRSVPDialog, timers >>

NextNorm ==
  \/ ReturnRows
  \/ MapRows
  \/ FilterRows

SpecNorm == InitNorm /\ [][NextNorm]_vars

(***************************************************************************)
(* The admin's list refreshes on their own                                 *)
(***************************************************************************)
guestA == Obj(<< <<k_name, Str(s_A)>>, <<k_email, Str(s_b_x_com)>> >>)
guestYes == Obj(<< <<k_name, Str(s_Yes)>>, <<k_guests, Num(2)>> >>)

\* Sheets the store can hold: empty, and after one and two adds.
StoredSheets ==
  { << >>,
    addRSVP_(<< >>, guestA, 0),
    addRSVP_(addRSVP_(<< >>, guestA, 0), guestYes, 0) }

\* The page after mount over a store that may already hold rows.
InitRefresh ==
  /\ SHEETS_WEB_APP_URL \in UrlValues
  /\ revision \in Revisions
  /\ backend \in Backends
  /\ form = initialForm(revision)
  /\ saveState = "idle"
  /\ ADMIN_CODE = EmptyStr
  /\ adminParam \in {Null, Str(s_1)}
  /\ isAdmin = detectAdminFromURL(adminParam, ADMIN_CODE)
  /\ session = IF isAdmin THEN Str(s_true) ELSE Null
  /\ showAdminDialog = FALSE
  /\ adminError = ""
  /\ showRSVPDialog = FALSE
  /\ rsvps = << >>
  /\ loading = (isAdmin /\ isSheetsConfigured(SHEETS_WEB_APP_URL))
  /\ adds = << >>
  /\ lists = IF isAdmin /\ isSheetsConfigured(SHEETS_WEB_APP_URL)
             THEN << [finish |-> FALSE] >>
             ELSE << >>
  /\ timers = 0
  /\ sheet \in StoredSheets
  /\ addCalls = 0
  /\ addRequests = 0
  /\ listRequests = IF isAdmin /\ isSheetsConfigured(SHEETS_WEB_APP_URL)
                    THEN 1 ELSE 0
  /\ lastAdd = noOutcome
  /\ accepted = 0
  /\ served = noRequest
  /\ lastList = IF isAdmin /\ ~isSheetsConfigured(SHEETS_WEB_APP_URL)
                THEN "failed" ELSE "none"
  /\ now = 0
  /\ pc = "ui"
  /\ arg = Undefined
  /\ ret = Undefined

NextRefresh ==
  \/ OpenAdminLogin
  \/ CloseAdminLogin
  \/ Login
  \/ Logout
  \/ Refresh
  \/ ResolveList
  \/ OpenRSVP
  \/ CloseRSVP

SpecRefresh == InitRefresh /\ [][NextRefresh]_vars

(***************************************************************************)
(* rowsToCSV                                                               *)
(***************************************************************************)
c_quote == "\""
c_comma == ","
c_newline == "\n"

\* parts.join(sep)
RECURSIVE Join(_, _)
Join(parts, sep) ==
  IF Len(parts) = 0 THEN << >>
  ELSE IF Len(parts) = 1 THEN parts[1]
  ELSE parts[1] \o sep \o Join(Tail(parts), sep)

\* /[",\n]/.test(val)
needsQuotes_NoNewline(val) ==
  \E i \in DOMAIN val : val[i] \in {c_quote, c_comma}

needsQuotes(val) ==
  \E i \in DOMAIN val : val[i] \in {c_quote, c_comma, c_newline}

\* val.replace(/"/g, '""')
RECURSIVE escaped(_)
escaped(val) ==
  IF val = << >> THEN << >>
  ELSE (IF Head(val) = c_quote THEN <<c_quote, c_quote>> ELSE <<Head(val)>>)
         \o escaped(Tail(val))

\* The text one value of a row is emitted as.
csvCell(v) ==
  LET val == IF v.t \in {"undefined", "null"} THEN << >> ELSE String(v) IN
  IF needsQuotes(val) THEN <<c_quote>> \o escaped(val) \o <<c_quote>>
  ELSE escaped(val)

\* processRow(row): Object.values(row) in insertion order.
processRow(row) ==
  Join([i \in DOMAIN row.p |-> csvCell(row.p[i][2])], <<c_comma>>)

\* rowsToCSV(rows) for an array of objects: the keys of rows[0] as they
\* are, then one line per row.
rowsToCSV(rows) ==
  LET first == IF Len(rows.a) = 0 THEN EmptyObj ELSE rows.a[1]
      header == Join([i \in DOMAIN first.p |-> first.p[i][1]], <<c_comma>>)
  IN Join(<<header>> \o [i \in DOMAIN rows.a |-> processRow(rows.a[i])],
          <<c_newline>>)

\* longest cell text drawn as input
MaxCellLen == 2

CsvChars == {"a", c_quote, c_comma, c_newline}
CsvTexts == UNION { [1..n -> CsvChars] : n \in 0..MaxCellLen }
CellValues == { Str(s) : s \in CsvTexts } \cup {Null, Undefined, Num(2)}
PairTexts ==
  { Str(<< >>), Str(<<"a">>), Str(<<c_comma>>), Str(<<c_quote, "a">>) }

\* Arrays of rows with one key set: one row of one or two cells, and two
\* rows of two cells whose keys the second row may hold in the other order.
CsvInputs ==
  { Arr(<< >>) }
    \cup { Arr(<< Obj(<< <<k_name, v>> >>) >>) : v \in CellValues }
    \cup { Arr(<< Obj(<< <<k_name, v>>, <<k_email, w>> >>) >>) :
             v \in CellValues, w \in CellValues }
    \cup { Arr(<< Obj(<< <<k_name, v>>, <<k_email, w>> >>),
                  IF swap THEN Obj(<< <<k_email, y>>, <<k_name, x>> >>)
                  ELSE Obj(<< <<k_name, x>>, <<k_email, y>> >>) >>) :
             v \in PairTexts, w \in PairTexts, x \in PairTexts,
             y \in PairTexts, swap \in BOOLEAN }

\* An admin's page whose CSV export is about to encode the rows arg.
InitCSV ==
  /\ AtRest
  /\ isAdmin = TRUE
  /\ session = Str(s_true)
  /\ loading = FALSE
  /\ listRequests = 0
  /\ pc = "rowsToCSV"
  /\ arg \in CsvInputs
  /\ ret = Undefined

ToCSV ==
  /\ pc = "rowsToCSV"
  /\ ret' = Str(rowsToCSV(arg))
  /\ pc' = "csv"
  /\ UNCHANGED << config, gate, page, wire, arg >>

NextCSV == ToCSV

SpecCSV == InitCSV /\ [][NextCSV]_vars

(***************************************************************************)
(* Admin gating                                                            *)
(***************************************************************************)
\* canSeeAdmin(configured, isAdmin): !!configured && !!isAdmin
canSeeAdmin(configured, admin) == ToBoolean(configured) /\ ToBoolean(admin)

\* The warning shown to whoever views an unconfigured page.
canShowSheetsWarning_Anyone(configured, admin) == ~ToBoolean(configured)

\* canShowSheetsWarning(configured, isAdmin): !!isAdmin && !configured
canShowSheetsWarning(configured, admin) ==
  ToBoolean(admin) /\ ~ToBoolean(configured)

\* const configured = isSheetsConfigured()
configured == Bool(isSheetsConfigured(SHEETS_WEB_APP_URL))

\* The "Not connected to Google Sheets yet" warning is rendered: in the
\* RSVP section, which on the home page is the RSVP dialog.
warningShown ==
  /\ revision # "home" \/ showRSVPDialog
  /\ canShowSheetsWarning(configured, Bool(isAdmin))

(***************************************************************************)
(* Admin mode: page load, login and logout                                 *)
(***************************************************************************)
\* The mount effect, then the isAdmin effect.
Mount ==
  /\ pc = "mount"
  /\ pc' = "ui"
  /\ LET fromURL == detectAdminFromURL(adminParam, ADMIN_CODE)
         granted == fromURL \/ session = Str(s_true)
     IN /\ session' = IF fromURL THEN Str(s_true) ELSE session
        /\ isAdmin' = granted
        /\ IF granted THEN refreshRSVPs(FALSE)
           ELSE /\ rsvps' = << >>
                /\ UNCHANGED << loading, lists, listRequests, lastList,
                                timers, form >>
  /\ UNCHANGED << config, arg, ret, saveState, showRSVPDialog,
                  showAdminDialog, adminError, adds, sheet, accepted, served, addCalls,
                  addRequests, lastAdd, now >>

AdminCodes == { EmptyStr, Str(s_secret) }
AdminParams == { Null, EmptyStr, Str(s_1), Str(s_secret), Str(s_x) }
SessionItems == { Null, Str(s_true), Str(s_false) }

\* The page as constructed, before its mount effect has run.
InitGate ==
  /\ SHEETS_WEB_APP_URL \in UrlValues
  /\ revision \in Revisions
  /\ backend \in Backends
  /\ ADMIN_CODE \in AdminCodes
  /\ adminParam \in AdminParams
  /\ session \in SessionItems
  /\ showAdminDialog = FALSE
  /\ adminError = ""
  /\ form = initialForm(revision)
  /\ saveState = "idle"
  /\ isAdmin = FALSE
  /\ showRSVPDialog = FALSE
  /\ rsvps = << >>
  /\ loading = FALSE
  /\ adds = << >>
  /\ lists = << >>
  /\ timers = 0
  /\ sheet = << >>
  /\ addCalls = 0
  /\ addRequests = 0
  /\ listRequests = 0
  /\ lastAdd = noOutcome
  /\ accepted = 0
  /\ served = noRequest
  /\ lastList = "none"
  /\ now = 0
  /\ pc = "mount"
  /\ arg = Undefined
  /\ ret = Undefined

NextGate ==
  \/ Mount
  \/ OpenAdminLogin
  \/ CloseAdminLogin
  \/ Login
  \/ Logout
  \/ ResolveList

SpecGate == InitGate /\ [][NextGate]_vars

(***************************************************************************)
(* The store endpoint on its own                                           *)
(***************************************************************************)
\* data rows the sheet may hold
MaxStored == 2

\* An entry whose fields are the header names.
headerEntry ==
  Obj([j \in DOMAIN headers |-> << headers[j].s, headers[j] >>])

\* Entries with string-valued fields, some left out.
FlatEntries ==
  { Obj(<< <<k_name, Str(s_A)>> >> \o field(k_email, e) \o field(k_guests, g)
          \o field(k_timestamp, ts)) :
      e \in {absent, Str(s_b_x_com)}, g \in {absent, Str(s_3)},
      ts \in {absent, Str(toISOString(1))} }
    \cup { headerEntry }

\* GET ?action=add&name=...: the entry's fields as query parameters.
getAdd(entry) == GetRequest(Obj(<< <<k_action, Str(s_add)>> >> \o entry.p))

\* POST with the JSON body {action: "add", entry}.
postAdd(entry) ==
  PostRequest(Obj(<< <<k_action, Str(s_add)>>, <<k_entry, entry>> >>))

StoreRequests ==
  { getAdd(en) : en \in FlatEntries }
    \cup { postAdd(en) : en \in FlatEntries }
    \cup { postAdd(Null),
           postAdd(Obj(<< <<k_name, Str(s_A)>>, <<k_guests, Num(2)>> >>)),
           PostRequest(Obj(<< <<k_action, Str(s_add)>> >>)),
           PostRequest(Obj(<< <<k_action, Str(s_list)>> >>)),
           PostRequest(badJson),
           PostRequest(emptyBody),
           listRequest,
           GetRequest(EmptyObj) }

\* An empty sheet behind either revision of the script; no page is open.
InitStore ==
  /\ SHEETS_WEB_APP_URL = Str(s_https)
  /\ revision = "home"
  /\ backend \in Backends
  /\ ADMIN_CODE = EmptyStr
  /\ adminParam = Null
  /\ session = Null
  /\ showAdminDialog = FALSE
  /\ adminError = ""
  /\ form = initialForm(revision)
  /\ saveState = "idle"
  /\ isAdmin = FALSE
  /\ showRSVPDialog = FALSE
  /\ rsvps = << >>
  /\ loading = FALSE
  /\ adds = << >>
  /\ lists = << >>
  /\ timers = 0
  /\ sheet = << >>
  /\ addCalls = 0
  /\ addRequests = 0
  /\ listRequests = 0
  /\ lastAdd = noOutcome
  /\ lastList = "none"
  /\ accepted = 0
  /\ served = noRequest
  /\ now = 0
  /\ pc = "store"
  /\ arg = Undefined
  /\ ret = Undefined

\* The web app runs doGet or doPost on a request from any client.
Request ==
  /\ pc = "store"
  /\ accepted < MaxStored
  /\ \E req \in StoreRequests, down \in BOOLEAN :
       LET r == serve(backend, req, sheet, down, now) IN
       /\ sheet' = r.sheet
       /\ accepted' = IF r.resp = okBody THEN accepted + 1 ELSE accepted
       /\ served' = [req |-> req, resp |-> r.resp]
  /\ UNCHANGED << config, gate, pure, page, adds, lists, addCalls,
                  addRequests, listRequests, lastAdd, lastList, now >>

NextStore == Request

SpecStore == InitStore /\ [][NextStore]_vars

(***************************************************************************)
(* addRSVPToSheets on its own: the request it builds                       *)
(***************************************************************************)
\* Instants the clock may show at the call.
Instants == {0, 1}

\* Entries handed to addRSVPToSheets: with the timestamp handleSubmit set at
\* instant 0, and without one.
SentEntries ==
  { Obj(<< <<k_name, Str(s_A)>> >> \o field(k_email, e) \o field(k_guests, g)
          \o field(k_timestamp, ts)) :
      e \in {absent, Str(s_b_x_com)},
      g \in {absent, Str(s_3), Num(2)},
      ts \in {absent, Undefined, Str(toISOString(0))} }

\* A configured page about to call addRSVPToSheets(arg) at instant now.
InitSend ==
  /\ SHEETS_WEB_APP_URL = Str(s_https)
  /\ revision \in Revisions
  /\ backend = "unified"
  /\ ADMIN_CODE = EmptyStr
  /\ adminParam = Null
  /\ session = Null
  /\ showAdminDialog = FALSE
  /\ adminError = ""
  /\ form = initialForm(revision)
  /\ saveState = "idle"
  /\ isAdmin = FALSE
  /\ showRSVPDialog = FALSE
  /\ rsvps = << >>
  /\ loading = FALSE
  /\ adds = << >>
  /\ lists = << >>
  /\ timers = 0
  /\ sheet = << >>
  /\ addCalls = 0
  /\ addRequests = 0
  /\ listRequests = 0
  /\ lastAdd = noOutcome
  /\ lastList = "none"
  /\ accepted = 0
  /\ served = noRequest
  /\ now \in Instants
  /\ pc = "addRSVPToSheets"
  /\ arg \in SentEntries
  /\ ret = Undefined

\* addRSVPToSheets builds its request.
Send ==
  /\ pc = "addRSVPToSheets"
  /\ ret' = addRequest(revision, arg, now)
  /\ pc' = "sent"
  /\ UNCHANGED << config, gate, page, wire, arg >>

NextSend == Send

SpecSend == InitSend /\ [][NextSend]_vars

(***************************************************************************)
(* Export of the loaded list                                               *)
(***************************************************************************)
f_csv == "wedding-rsvps.csv"
f_xlsx == "wedding-rsvps.xlsx"

\* downloadCSV(filename, rows): the file the browser saves.
downloadCSV(filename, rows) ==
  [name |-> filename, content |-> Str(rowsToCSV(Arr(rows)))]

\* The workbook XLSX.writeFile saves: one sheet "RSVPs" built from the rows.
writeFile(filename, rows) ==
  [name |-> filename, content |-> Obj(<< <<"RSVPs", Arr(rows)>> >>)]

\* if (rsvps.length) downloadCSV("wedding-rsvps.csv", rsvps)
csvFiles(rows) == IF Len(rows) > 0 THEN << downloadCSV(f_csv, rows) >> ELSE << >>

\* Rows as refreshRSVPs stores them.
LoadedRows ==
  { normRow(Obj(<< <<k_name, n>>, <<k_guests, g>>, <<k_message, m>> >>)) :
      n \in {Str(s_A), Str(<<"a", c_comma>>)},
      g \in {Num(0), Num(2)},
      m \in {EmptyStr, Str(<<c_quote>>)} }

\* longest loaded list that is exported
MaxExported == 2

LoadedLists == UNION { [1..n -> LoadedRows] : n \in 0..MaxExported }

\* An admin's page with a loaded list, one of the export buttons about to
\* be pressed; ret holds the files saved so far.
InitExport ==
  /\ SHEETS_WEB_APP_URL = Str(s_https)
  /\ revision \in Revisions
  /\ backend = "unified"
  /\ form = initialForm(revision)
  /\ saveState = "idle"
  /\ showRSVPDialog = (revision = "home")
  /\ rsvps \in LoadedLists
  /\ adds = << >>
  /\ lists = << >>
  /\ timers = 0
  /\ sheet = << >>
  /\ addCalls = 0
  /\ addRequests = 0
  /\ lastAdd = noOutcome
  /\ accepted = 0
  /\ served = noRequest
  /\ lastList = "loaded"
  /\ now = 0
  /\ ADMIN_CODE = EmptyStr
  /\ adminParam = Str(s_1)
  /\ showAdminDialog = FALSE
  /\ adminError = ""
  /\ isAdmin = TRUE
  /\ session = Str(s_true)
  /\ loading = FALSE
  /\ listRequests = 1
  /\ pc \in {"exportXLSX", "exportCSV"}
  /\ arg = Undefined
  /\ ret = << >>

\* exportXLSX: the workbook is saved, or building or writing it throws and
\* the catch block runs the CSV export.
ExportXLSX ==
  /\ pc = "exportXLSX"
  /\ adminToolsShown
  /\ \E throws \in BOOLEAN :
       IF throws
       THEN /\ ret' = ret \o csvFiles(rsvps)
            /\ pc' = "xlsxFailed"
       ELSE /\ ret' = ret \o << writeFile(f_xlsx, rsvps) >>
            /\ pc' = "xlsxSaved"
  /\ UNCHANGED << config, gate, page, wire, arg >>

\* exportCSV
ExportCSV ==
  /\ pc = "exportCSV"
  /\ adminToolsShown
  /\ ret' = ret \o csvFiles(rsvps)
  /\ pc' = "csvExported"
  /\ UNCHANGED << config, gate, page, wire, arg >>

NextExport == ExportXLSX \/ ExportCSV

SpecExport == InitExport /\ [][NextExport]_vars

(***************************************************************************)
(* The admin grant across page loads                                       *)
(***************************************************************************)
\* The tab loads the page again, under any URL: the component state is
\* constructed anew, requests of the old page are abandoned, sessionStorage
\* is kept. listRequests goes on counting the list requests of the tab.
Reload ==
  /\ pc = "ui"
  /\ listRequests < MaxRefreshes
  /\ pc' = "mount"
  /\ adminParam' \in AdminParams
  /\ form' = initialForm(revision)
  /\ saveState' = "idle"
  /\ isAdmin' = FALSE
  /\ showRSVPDialog' = FALSE
  /\ showAdminDialog' = FALSE
  /\ adminError' = ""
  /\ rsvps' = << >>
  /\ loading' = FALSE
  /\ lists' = << >>
  /\ adds' = << >>
  /\ timers' = 0
  /\ lastList' = "none"
  /\ UNCHANGED << SHEETS_WEB_APP_URL, revision, backend, ADMIN_CODE, session,
                  arg, ret, sheet, addCalls, addRequests, listRequests,
                  lastAdd, accepted, served, now >>

NextSession ==
  \/ Mount
  \/ OpenAdminLogin
  \/ CloseAdminLogin
  \/ Login
  \/ Logout
  \/ ResolveList
  \/ Reload

SpecSession == InitGate /\ [][NextSession]_vars

(***************************************************************************)
(* Adds followed by a list: client, script and client again                *)
(***************************************************************************)
\* add requests sent in one behaviour
MaxAdded == 2

\* Entries as handleSubmit hands them on: the form's fields, name and email
\* filled in, and the timestamp of the submission.
ValidEntries ==
  { Obj(<< <<k_name, Str(s_A)>>, <<k_email, Str(s_b_x_com)>>,
           <<k_attending, a>>, <<k_guests, g>>, <<k_message, m>>,
           <<k_timestamp, Str(toISOString(0))>> >>) :
      a \in {EmptyStr, Str(s_Yes)},
      g \in {EmptyStr, Str(s_3), Num(2)},
      m \in {EmptyStr, Str(<<"h", "i", c_comma>>)} }

\* An admin's page of any revision over an empty sheet behind either
\* script; arg holds the entries whose add request the script accepted.
InitRoundTrip ==
  /\ SHEETS_WEB_APP_URL = Str(s_https)
  /\ revision \in Revisions
  /\ backend \in Backends
  /\ ADMIN_CODE = EmptyStr
  /\ adminParam = Str(s_1)
  /\ session = Str(s_true)
  /\ showAdminDialog = FALSE
  /\ adminError = ""
  /\ form = initialForm(revision)
  /\ saveState = "idle"
  /\ isAdmin = TRUE
  /\ showRSVPDialog = (revision = "home")
  /\ rsvps = << >>
  /\ loading = FALSE
  /\ adds = << >>
  /\ lists = << >>
  /\ timers = 0
  /\ sheet = << >>
  /\ addCalls = 0
  /\ addRequests = 0
  /\ listRequests = 0
  /\ lastAdd = noOutcome
  /\ lastList = "none"
  /\ accepted = 0
  /\ served = noRequest
  /\ now = 0
  /\ pc = "adding"
  /\ arg = Arr(<< >>)
  /\ ret = Undefined

\* addRSVPToSheets(entry) and the script's run on its request.
AddEntry ==
  /\ pc = "adding"
  /\ addCalls < MaxAdded
  /\ \E entry \in ValidEntries, down \in BOOLEAN :
       LET req == addRequest(revision, entry, now)
           r == serve(backend, req, sheet, down, now)
       IN /\ sheet' = r.sheet
          /\ served' = [req |-> req, resp |-> r.resp]
          /\ lastAdd' = requestOutcome("response", r.resp)
          /\ addCalls' = addCalls + 1
          /\ addRequests' = addRequests + 1
          /\ IF r.resp = okBody
             THEN /\ accepted' = accepted + 1
                  /\ arg' = Arr(Append(arg.a, entry))
             ELSE UNCHANGED << accepted, arg >>
  /\ UNCHANGED << config, gate, page, adds, lists, listRequests, lastList,
                  now, pc, ret >>

\* refreshRSVPs(): the list request, the script's run on it and the list
\* the page stores.
ListEntries ==
  /\ pc = "adding"
  /\ \E outcome \in Outcomes, down \in BOOLEAN :
       LET r == serve(backend, listRequest, sheet, down, now) IN
       /\ rsvps' = refreshedList(outcome, r.resp)
       /\ lastList' = IF listFailed(outcome, r.resp) \/ r.resp.t # "array"
                      THEN "failed" ELSE "loaded"
  /\ listRequests' = listRequests + 1
  /\ loading' = FALSE
  /\ pc' = "listed"
  /\ UNCHANGED << config, gate, form, saveState, isAdmin, showRSVPDialog,
                  timers, adds, lists, sheet, addCalls, addRequests, lastAdd,
                  accepted, served, now, arg, ret >>

NextRoundTrip == AddEntry \/ ListEntries

SpecRoundTrip == InitRoundTrip /\ [][NextRoundTrip]_vars

(***************************************************************************)
(* Properties                                                              *)
(***************************************************************************)
\* A value is a string of at least one character.
NonEmptyText(v) == v.t = "string" /\ Len(v.s) > 0

\* The entry e has the field k, and it is a non-empty string.
NonEmptyField(e, k) ==
  /\ e.t = "object"
  /\ \E i \in DOMAIN e.p : e.p[i][1] = k /\ NonEmptyText(e.p[i][2])

\* The field k of the entry an add request carries.
sentField(req, k) ==
  IF req.method = "GET" THEN Get(req.parameter, k)
  ELSE Get(Get(req.body, k_entry), k)

\* What holds of a step that issues an add request.
C1_IssueStep ==
  addRequests' # addRequests =>
    /\ addRequests' = addRequests + 1
    /\ addCalls' = addCalls + 1
    /\ Len(adds') = Len(adds) + 1
    /\ NonEmptyField(form, k_name)
    /\ saveState # "saving"

\* C1 (under the operation's precondition that the endpoint is configured):
\* every call of addRSVPToSheets issues exactly one add request, however
\* the request ends: the requests issued never exceed the calls, equal them
\* on a configured endpoint, and a step that issues a request issues one,
\* in a user's submit, which counts one more call and leaves one more
\* request in flight; the end of a request issues none.
C1_OneRequestPerCall ==
  /\ [](/\ addRequests <= addCalls
        /\ Len(adds) <= addRequests
        /\ isSheetsConfigured(SHEETS_WEB_APP_URL) => addRequests = addCalls)
  /\ [][C1_IssueStep]_vars

\* Two calls made two requests, the last one failed in transport and
\* nothing is in flight or was sent again.
C1_Witness ==
  /\ addCalls = 2
  /\ addRequests = 2
  /\ adds = << >>
  /\ lastAdd.outcome = "network_error"
  /\ saveState = "error"

\* C2: when isSheetsConfigured() is false, addRSVPToSheets and
\* fetchRSVPsFromSheets fail with the not-configured error and no request
\* is ever issued.
C2_UnconfiguredIssuesNothing ==
  ~isSheetsConfigured(SHEETS_WEB_APP_URL) =>
    /\ addRequests = 0
    /\ listRequests = 0
    /\ lastAdd.outcome \in {"none", "invalid", "unconfigured"}

\* What holds of the steps that issue an add request, end one, or turn
\* saveState to success.
C3_Step ==
  /\ addRequests' > addRequests => saveState' = "saving"
  /\ Len(adds') < Len(adds) =>
       saveState' = IF lastAdd'.outcome = "response" /\ lastAdd'.resp # Undefined
                    THEN "success" ELSE "error"
  /\ (saveState' = "success" /\ saveState # "success") =>
       (Len(adds') < Len(adds) /\ lastAdd'.outcome = "response")

\* C3: saveState is always one of idle, saving, success, error; a submit
\* that issues a request sets it to saving; when an add request ends it
\* becomes success if the request ended with a 2xx status and a body that
\* parses as JSON and error otherwise (non-2xx status, transport failure,
\* unparseable body); and it becomes success in no other step.
C3_SaveStateFollowsOutcome ==
  /\ [](saveState \in SaveStates)
  /\ [][C3_Step]_vars

\* A request was stored and acknowledged, and the page shows success.
C3_Witness ==
  /\ saveState = "success"
  /\ lastAdd = requestOutcome("response", okBody)
  /\ Len(sheet) = 2
  /\ adds = << >>

\* C4: an add request that ends with a body that does not parse as JSON, or
\* with a parsed body other than the acknowledgement {ok: true}, leaves the
\* page in error and never in success.
C4_BadAcknowledgementFails ==
  (\/ lastAdd.outcome = "bad_json"
   \/ (lastAdd.outcome = "response" /\ lastAdd.resp # okBody))
    => saveState # "success"

\* C5: validateRSVP returns true exactly when the entry has a non-empty
\* name and a non-empty email, whatever its other fields; for a missing
\* entry it returns false.
C5_ValidateIffNameAndEmail ==
  pc = "validated" =>
    ret = Bool(NonEmptyField(arg, k_name) /\ NonEmptyField(arg, k_email))

\* An entry with a name, an empty email and all other fields was refused.
C5_Witness ==
  /\ pc = "validated"
  /\ ret = Bool(FALSE)
  /\ NonEmptyField(arg, k_name)
  /\ Get(arg, k_email) = EmptyStr
  /\ NonEmptyField(arg, k_message)

\* The form lacks a name or an email, and what then holds of every step.
FormIncomplete ==
  ~(NonEmptyField(form, k_name) /\ NonEmptyField(form, k_email))

C6_Step ==
  FormIncomplete =>
    /\ addRequests' = addRequests
    /\ addCalls' = addCalls
    /\ Len(adds') <= Len(adds)
    /\ saveState' = "saving" => saveState = "saving"
    /\ (lastAdd' = rejectedOutcome /\ lastAdd # rejectedOutcome) =>
         (saveState' = saveState /\ adds' = adds)

\* C6: while the form's name or email is empty no step issues an add
\* request, calls addRSVPToSheets or sets saveState to saving, and a submit
\* refused for it leaves saveState and the requests in flight as they were;
\* so every add request sent carries a non-empty name and email.
C6_SubmitGatedByValidation ==
  /\ [](\A i \in DOMAIN adds :
          /\ NonEmptyText(sentField(adds[i].req, k_name))
          /\ NonEmptyText(sentField(adds[i].req, k_email)))
  /\ [][C6_Step]_vars

\* After one submission the form holds a name and no email, and the submit
\* of it was refused: still one call and one request.
C6_Witness ==
  /\ lastAdd = rejectedOutcome
  /\ NonEmptyField(form, k_name)
  /\ ~NonEmptyField(form, k_email)
  /\ addCalls = 1
  /\ addRequests = 1

\* C7: fetchRSVPsFromSheets returns a bare array as it is, the rows array of
\* an object that holds one, and the empty array for every other body.
C7_ListShapes ==
  pc = "map" =>
    ret = IF arg.t = "array" THEN arg
          ELSE IF arg.t = "object"
                  /\ \E i \in DOMAIN arg.p :
                       arg.p[i][1] = k_rows /\ arg.p[i][2].t = "array"
          THEN arg.p[CHOOSE i \in DOMAIN arg.p : arg.p[i][1] = k_rows][2]
          ELSE Arr(<< >>)

\* The canonical field names, in the order of a normalized record.
CanonicalFields ==
  << k_name, k_email, k_attending, k_guests, k_message, k_timestamp >>

UpperChar(c) ==
  IF \E i \in DOMAIN LowerCase : LowerCase[i] = c
  THEN UpperCase[CHOOSE i \in DOMAIN LowerCase : LowerCase[i] = c]
  ELSE c

Capitalise(k) == << UpperChar(Head(k)) >> \o Tail(k)

\* The key k is a variant of the canonical name f: any casing of it, or
\* only the name itself and its capitalised form.
VariantOf(k, f, anyCasing) ==
  IF anyCasing THEN ToLowerCase(k) = f ELSE k = f \/ k = Capitalise(f)

\* A row whose keys are variants of canonical names, one key per name,
\* with a number for guests and non-empty text elsewhere.
VariantRow(r, anyCasing) ==
  /\ r.t = "object"
  /\ \A j \in DOMAIN r.p :
       \E n \in DOMAIN CanonicalFields :
         /\ VariantOf(r.p[j][1], CanonicalFields[n], anyCasing)
         /\ IF CanonicalFields[n] = k_guests THEN r.p[j][2].t = "number"
            ELSE NonEmptyText(r.p[j][2])
         /\ \A i \in DOMAIN r.p :
              VariantOf(r.p[i][1], CanonicalFields[n], anyCasing) => i = j

\* The canonical record of such a row: each field from the key that is a
\* variant of its name, "" (0 for guests) when the row has none.
CanonicalRecord(r, anyCasing) ==
  Obj([n \in DOMAIN CanonicalFields |->
        << CanonicalFields[n],
           IF \E j \in DOMAIN r.p :
                VariantOf(r.p[j][1], CanonicalFields[n], anyCasing)
           THEN r.p[CHOOSE j \in DOMAIN r.p :
                      VariantOf(r.p[j][1], CanonicalFields[n], anyCasing)][2]
           ELSE IF CanonicalFields[n] = k_guests THEN Num(0) ELSE EmptyStr >>])

NormalizesVariants(anyCasing) ==
  (pc = "filter" /\ arg.t = "array") =>
    \A i \in DOMAIN arg.a :
      VariantRow(arg.a[i], anyCasing) =>
        ret.a[i] = CanonicalRecord(arg.a[i], anyCasing)

\* The row of the README and of the specification, as a list response.
C8_Example ==
  Arr(<< Obj(<< <<k_Name, Str(s_A)>>, <<k_Email, Str(s_b_x_com)>> >>) >>)

C9_Kept(x) == Get(x, k_name) # EmptyStr \/ Get(x, k_email) # EmptyStr

\* C9: the loaded list is exactly the normalized rows with a non-empty name
\* or a non-empty email, in the order received.
C9_LoadedListIsFilteredInOrder ==
  pc = "done" =>
    LET kept == {i \in DOMAIN ret.a : C9_Kept(ret.a[i])} IN
    /\ Len(rsvps) = Cardinality(kept)
    /\ \A j \in DOMAIN rsvps :
         \E i \in kept :
           /\ Cardinality({k \in kept : k <= i}) = j
           /\ rsvps[j] = ret.a[i]

\* Of three rows the second had neither name nor email: the first, which
\* has an email only, and the third were loaded, in that order.
C9_Witness ==
  /\ pc = "done"
  /\ Len(ret.a) = 3
  /\ Len(rsvps) = 2
  /\ ~C9_Kept(ret.a[2])
  /\ rsvps[1] = ret.a[1]
  /\ rsvps[2] = ret.a[3]
  /\ Get(rsvps[1], k_name) = EmptyStr
  /\ Get(rsvps[2], k_name) # EmptyStr

\* A non-empty string with a character that is no decimal digit.
C10_Unparseable(v) ==
  v.t = "string" /\ v.s # << >> /\ \E i \in DOMAIN v.s : v.s[i] \notin Digits

\* C10: guests of every normalized entry is an integer >= 0, and 0 when the
\* row has no guests value or one that is no base-10 number.
C10_GuestsNaturalNumber ==
  (pc = "filter" /\ arg.t = "array") =>
    \A i \in DOMAIN ret.a :
      LET g == Get(ret.a[i], k_guests)
          r == arg.a[i]
      IN
      /\ g.t = "number"
      /\ g.n \in Nat
      /\ (~Has(r, k_guests) /\ ~Has(r, k_Guests)) => g = Num(0)
      /\ (Has(r, k_guests) /\ C10_Unparseable(Get(r, k_guests))) => g = Num(0)

\* A step in which a refreshRSVPs call ends in failure: a list request
\* leaves the wire, or the call finds the store not configured.
C11_FailedStep ==
  /\ lastList' = "failed"
  /\ Len(lists') < Len(lists) \/ lastList # "failed"

\* C11: when a list refresh fails (store not configured, non-2xx status,
\* transport failure or unparseable body) no error leaves refreshRSVPs: the
\* step ends with the loaded list empty and the loading flag false, and the
\* Refresh button, where it is rendered, is enabled for a later refresh.
C11_FailedRefreshRecovers ==
  [][C11_FailedStep =>
       /\ rsvps' = << >>
       /\ loading' = FALSE
       /\ adminToolsShown' => refreshEnabled']_vars

\* A second refresh, over a store that holds rows, has failed and the
\* Refresh button is enabled again.
C11_Witness ==
  /\ lastList = "failed"
  /\ listRequests = 2
  /\ Len(sheet) > 1
  /\ rsvps = << >>
  /\ refreshEnabled

\* Every quote of the text written twice.
Doubled(val) ==
  LET parts == [i \in DOMAIN val |->
                  IF val[i] = c_quote THEN <<c_quote, c_quote>>
                  ELSE <<val[i]>>]
  IN Join(parts, << >>)

HasSpecial(val) ==
  \E i \in DOMAIN val : val[i] = c_comma \/ val[i] = c_quote \/ val[i] = c_newline

\* The cell the quoting rule asks for.
ExpectedCell(v) ==
  IF v = Null \/ v = Undefined THEN << >>
  ELSE IF HasSpecial(String(v))
       THEN <<c_quote>> \o Doubled(String(v)) \o <<c_quote>>
       ELSE String(v)

ExpectedLine(row) ==
  Join([i \in DOMAIN row.p |-> ExpectedCell(row.p[i][2])], <<c_comma>>)

\* The header line: the keys of the first row, and empty without rows.
HeaderOf(rows) ==
  IF Len(rows.a) = 0 THEN << >>
  ELSE Join([i \in DOMAIN rows.a[1].p |-> rows.a[1].p[i][1]], <<c_comma>>)

LinesOf(rows) == [i \in DOMAIN rows.a |-> ExpectedLine(rows.a[i])]

\* C12: in the text rowsToCSV returns, every value holding a comma, a
\* double quote or a newline is wrapped in double quotes with each inner
\* quote doubled, every other value is emitted unquoted and unchanged, and
\* null and undefined are emitted as the empty string; the cells of a row
\* are joined by commas and the rows follow the header line.
C12_QuotingRule ==
  pc = "csv" =>
    ret = Str(Join(<<HeaderOf(arg)>> \o LinesOf(arg), <<c_newline>>))

\* A row with a cell that needs quotes and a null cell has been encoded.
C12_Witness ==
  /\ pc = "csv"
  /\ \E i \in DOMAIN arg.a :
       /\ \E j \in DOMAIN arg.a[i].p : HasSpecial(String(arg.a[i].p[j][2]))
       /\ \E j \in DOMAIN arg.a[i].p : arg.a[i].p[j][2] = Null

\* A CSV parser after RFC 4180, reading text from position i: st is
\* "start" at the start of a field, "plain" in an unquoted field, "quoted"
\* in a quoted field and "quote" after a quote met in a quoted field; a
\* line break that ends the text starts no further record.
RECURSIVE parseFrom(_, _, _, _, _, _)
parseFrom(text, i, st, fld, rec, recs) ==
  IF i > Len(text)
  THEN IF st = "start" /\ rec = << >> THEN recs
       ELSE Append(recs, Append(rec, fld))
  ELSE LET c == text[i] IN
       IF st = "quoted"
       THEN IF c = c_quote
            THEN parseFrom(text, i + 1, "quote", fld, rec, recs)
            ELSE parseFrom(text, i + 1, "quoted", Append(fld, c), rec, recs)
       ELSE IF c = c_quote /\ st = "start"
       THEN parseFrom(text, i + 1, "quoted", << >>, rec, recs)
       ELSE IF c = c_quote /\ st = "quote"
       THEN parseFrom(text, i + 1, "quoted", Append(fld, c), rec, recs)
       ELSE IF c = c_comma
       THEN parseFrom(text, i + 1, "start", << >>, Append(rec, fld), recs)
       ELSE IF c = c_newline
       THEN parseFrom(text, i + 1, "start", << >>, << >>,
                      Append(recs, Append(rec, fld)))
       ELSE parseFrom(text, i + 1, "plain", Append(fld, c), rec, recs)

parseCSV(text) == parseFrom(text, 1, "start", << >>, << >>, << >>)

\* The rows a parser that takes the first line as header decodes: one
\* object per later record, its fields under the header's names.
decodeCSV(text) ==
  LET recs == parseCSV(text) IN
  IF Len(recs) = 0 THEN << >>
  ELSE [i \in 1..(Len(recs) - 1) |->
         Obj([j \in DOMAIN recs[1] |->
               << recs[1][j],
                  IF j <= Len(recs[i + 1]) THEN Str(recs[i + 1][j])
                  ELSE Undefined >>])]

Keys(o) == { o.p[i][1] : i \in DOMAIN o.p }

\* Two lists of rows hold the same values under the same keys.
SameRows(a, b) ==
  /\ Len(a) = Len(b)
  /\ \A i \in DOMAIN a :
       /\ Keys(a[i]) = Keys(b[i])
       /\ \A k \in Keys(a[i]) : Get(a[i], k) = Get(b[i], k)

\* Rows whose values are all strings and whose key sets are all equal.
FlatStringRows(rows) ==
  /\ \A i \in DOMAIN rows.a : \A j \in DOMAIN rows.a[i].p :
       rows.a[i].p[j][2].t = "string"
  /\ \A i \in DOMAIN rows.a : Keys(rows.a[i]) = Keys(rows.a[1])

\* Every row holds its keys in the order of the first row.
SameKeyOrder(rows) ==
  \A i \in DOMAIN rows.a :
    [j \in DOMAIN rows.a[i].p |-> rows.a[i].p[j][1]]
      = [j \in DOMAIN rows.a[1].p |-> rows.a[1].p[j][1]]

\* C13: for every list of flat string-valued rows with one key set,
\* decoding the text rowsToCSV returns with a standard CSV parser that takes
\* the first line as header yields rows equal to the input.
C13_RoundTrip ==
  pc = "csv" /\ FlatStringRows(arg) => SameRows(decodeCSV(ret.s), arg.a)

\* The same round trip for rows that all hold their keys in the order of
\* the first row and whose text does not end in an empty line.
RoundTripAligned ==
  pc = "csv" /\ FlatStringRows(arg) /\ SameKeyOrder(arg)
             /\ (Len(ret.s) > 0 => ret.s[Len(ret.s)] # c_newline)
    => SameRows(decodeCSV(ret.s), arg.a)

\* C14: for every pair (configured, isAdmin) canSeeAdmin is configured AND
\* isAdmin and canShowSheetsWarning is isAdmin AND NOT configured, the two
\* are never both true, and neither the configuration warning nor the
\* admin tools are rendered for a viewer whose isAdmin is false.
C14_AdminPredicates ==
  /\ \A c \in BOOLEAN, a \in BOOLEAN :
       /\ canSeeAdmin(Bool(c), Bool(a)) = (c /\ a)
       /\ canShowSheetsWarning(Bool(c), Bool(a)) = (a /\ ~c)
       /\ ~(canSeeAdmin(Bool(c), Bool(a)) /\ canShowSheetsWarning(Bool(c), Bool(a)))
  /\ ~isAdmin => ~warningShown /\ ~adminToolsShown
  /\ ~(canSeeAdmin(configured, Bool(isAdmin)) /\ warningShown)

\* A guest has the RSVP dialog of an unconfigured home page open.
C14_Witness ==
  /\ ~isAdmin
  /\ revision = "home"
  /\ showRSVPDialog
  /\ ~isSheetsConfigured(SHEETS_WEB_APP_URL)
  /\ ~warningShown

\* The URL's admin parameter equals the configured secret, or "1" when no
\* secret is configured.
UrlGrants ==
  IF ADMIN_CODE = EmptyStr THEN adminParam = Str(s_1)
  ELSE adminParam = ADMIN_CODE

\* C15: at page load isAdmin becomes true exactly when the URL's admin
\* parameter equals the configured secret ("1" without a secret) or session
\* storage already holds a grant; a grant from the URL is written to
\* session storage, and an absent, empty or non-matching parameter alone
\* grants nothing.
C15_GrantAtPageLoad ==
  [][Mount =>
       /\ isAdmin' = (UrlGrants \/ session = Str(s_true))
       /\ UrlGrants => session' = Str(s_true)
       /\ ~UrlGrants /\ session # Str(s_true) => ~isAdmin' /\ session' = session]_vars

\* A page with a secret configured has been loaded with the secret in its
\* URL: the viewer is admin and the grant is in session storage.
C15_Witness ==
  /\ pc = "ui"
  /\ ADMIN_CODE = Str(s_secret)
  /\ adminParam = Str(s_secret)
  /\ isAdmin
  /\ session = Str(s_true)
  /\ listRequests <= 1

\* The code the login dialog accepts.
ExpectedCode == IF ADMIN_CODE = EmptyStr THEN Str(s_1) ELSE ADMIN_CODE

\* C16: a manual login sets isAdmin and writes the grant to session storage
\* exactly when the typed code equals the configured secret ("1" without a
\* secret); any other code shows an error and leaves isAdmin and session
\* storage as they were.
C16_ManualLogin ==
  [][\A code \in TypedCodes :
       LoginWith(code) =>
         IF code = ExpectedCode
         THEN isAdmin' /\ session' = Str(s_true)
         ELSE /\ adminError' # ""
              /\ isAdmin' = isAdmin
              /\ session' = session]_vars

\* With a secret configured, a wrong code has been typed: the dialog shows
\* its error and the viewer is no admin.
C16_Witness ==
  /\ ADMIN_CODE = Str(s_secret)
  /\ adminError = s_Incorrect
  /\ showAdminDialog
  /\ ~isAdmin
  /\ session # Str(s_true)

\* The rows below the header row.
DataRows(sh) == IF Len(sh) = 0 THEN << >> ELSE Tail(sh)

\* C17: the store is append-only and never deduplicates: a request answered
\* {ok: true} appends exactly one row below the rows already there, every
\* other request leaves the data rows as they are, and so the number of
\* data rows equals the number of accepted adds.
C17_AppendOnly ==
  /\ [](Len(DataRows(sheet)) = accepted)
  /\ [][LET old == DataRows(sheet)
            new == DataRows(sheet')
        IN IF served'.resp = okBody
           THEN Len(new) = Len(old) + 1 /\ SubSeq(new, 1, Len(old)) = old
           ELSE new = old]_vars

\* Two accepted adds of one entry have left two equal rows.
C17_Witness ==
  /\ accepted = 2
  /\ Len(sheet) = 3
  /\ sheet[2] = sheet[3]
  /\ sheet[2][1] = Str(s_A)

\* The entry an accepted add request carries.
EntryOf(req) ==
  IF req.method = "GET" THEN req.parameter
  ELSE Or(OptGet(req.body, k_entry), EmptyObj)

\* The j-th column of a row holds the entry's field named by the j-th
\* header: a text field as it is or empty, the timestamp as it is or the
\* instant of the add, guests as the number it reads as, or 0.
ColumnHolds(j, cell, entry, t) ==
  LET v == Get(entry, headers[j].s) IN
  IF headers[j].s = k_guests
  THEN cell \in {Number(Or(v, Num(0))), Num(0)}
  ELSE IF headers[j].s = k_timestamp
  THEN cell = Or(v, Str(toISOString(t)))
  ELSE cell = Or(v, EmptyStr)

IsList(req) ==
  req.method = "GET" /\ Get(req.parameter, k_action) = Str(s_list)

\* C18: from an empty sheet on, the header row name, email, attending,
\* guests, message, timestamp is the first row of a sheet that has rows and
\* no other row equals it; the sheet has rows once an add was accepted, a
\* list request writes nothing, and every row an add appends holds the
\* entry's six fields in the order of the header.
C18_HeaderOnceThenRows ==
  /\ [](sheet # << >> =>
          /\ sheet[1] = headers
          /\ \A i \in 2..Len(sheet) :
               sheet[i] # headers /\ Len(sheet[i]) = Len(headers))
  /\ [](accepted > 0 => sheet # << >>)
  /\ [][/\ IsList(served'.req) => sheet' = sheet
        /\ served'.resp = okBody =>
             \A j \in DOMAIN headers :
               ColumnHolds(j, sheet'[Len(sheet')][j], EntryOf(served'.req),
                           now)]_vars

\* An entry whose fields are the header names is stored as a data row below
\* the header row and another row.
C18_Witness ==
  /\ Len(sheet) = 3
  /\ sheet[1] = headers
  /\ sheet[3][1] = Str(k_name)
  /\ sheet[3] # headers

\* C19: the endpoint accepts an add both as a GET with action=add and the
\* entry's fields as query parameters and as a POST with the JSON body
\* {action: "add", entry}, and for one entry both forms append the same row.
C19_BothFormsSameRow ==
  pc = "store" =>
    \A entry \in FlatEntries :
      LET g == serve(backend, getAdd(entry), sheet, FALSE, now)
          p == serve(backend, postAdd(entry), sheet, FALSE, now)
      IN /\ g.resp = okBody
         /\ p.resp = okBody
         /\ g.sheet = p.sheet

\* C20: the request carries the entry's own timestamp when the entry has
\* one, and the ISO-8601 text of the instant of the call when it has none.
C20_TimestampOnlyWhenMissing ==
  pc = "sent" =>
    sentField(ret, k_timestamp) =
      IF ToBoolean(Get(arg, k_timestamp)) THEN Get(arg, k_timestamp)
      ELSE Str(toISOString(now))

\* C21: whenever building or writing the workbook fails, exportXLSX saves
\* the CSV export of the loaded entries, whatever the loaded list is.
C21_FallbackForEveryList ==
  pc = "xlsxFailed" => ret = << downloadCSV(f_csv, rsvps) >>

\* C22: at most one add request is in flight at any time, and while one is
\* in flight the submission state is saving, so the submit control stays
\* disabled.
C22_OneAddInFlight ==
  /\ Len(adds) <= 1
  /\ adds # << >> => saveState = "saving"

\* The persisted grant: sessionStorage holds is_admin = "true".
Granted == session = Str(s_true)

\* C23: the admin session has the two states guest and admin (a loaded page
\* shows admin mode exactly when the grant is stored); the grant appears
\* only by a URL-token match at load or a manual-login match, disappears
\* only by logout, logout removes it, and a load without a matching URL
\* token and without a grant starts as guest.
C23_SessionMachine ==
  /\ [](pc = "ui" => (isAdmin <=> Granted))
  /\ [][(~Granted /\ Granted') =>
          \/ Mount /\ UrlGrants
          \/ LoginWith(expectedCode)]_vars
  /\ [][(Granted /\ ~Granted') => Logout]_vars
  /\ [][Logout => session' = Null]_vars
  /\ [][(Mount /\ ~Granted /\ ~UrlGrants) => ~isAdmin']_vars

\* A page load that follows a logout in the same tab, under a URL whose
\* token does not match.
C23_Witness ==
  /\ pc = "mount"
  /\ listRequests > 0
  /\ session = Null
  /\ ~UrlGrants

\* The keys of the first row, in insertion order.
FirstKeys(rows) ==
  IF Len(rows.a) = 0 THEN << >>
  ELSE [i \in DOMAIN rows.a[1].p |-> rows.a[1].p[i][1]]

\* The values of a row taken in the order of the given keys.
LineInOrder(row, keys) ==
  Join([j \in DOMAIN keys |-> ExpectedCell(Get(row, keys[j]))], <<c_comma>>)

\* C24: the header line of rowsToCSV is the keys of the first row in
\* insertion order (empty without rows), and every row's values are emitted
\* in that first-row key order, whatever the row's own insertion order.
C24_FirstRowKeyOrder ==
  pc = "csv" =>
    ret = Str(Join(<<Join(FirstKeys(arg), <<c_comma>>)>> \o
                     [i \in DOMAIN arg.a |->
                        LineInOrder(arg.a[i], FirstKeys(arg))],
                   <<c_newline>>))

\* C25: normalization is idempotent: every row the map of refreshRSVPs has
\* produced is returned unchanged when it is normalized again.
C25_NormalizeTwice ==
  pc = "filter" => \A i \in DOMAIN ret.a : normRow(ret.a[i]) = ret.a[i]

\* The same for the rows whose guest count is a number other than NaN.
NormalizeTwiceCounted ==
  pc = "filter" =>
    \A i \in DOMAIN ret.a :
      Get(ret.a[i], k_guests) # NaN => normRow(ret.a[i]) = ret.a[i]

\* The text a field of the add request is said to hold: the base-10 text
\* of the guest count and "0" without one, the value of any other field
\* and the empty text without one.
SentText(entry, k) ==
  IF ~ToBoolean(Get(entry, k))
  THEN IF k = k_guests THEN Str(<<"0">>) ELSE EmptyStr
  ELSE Str(String(Get(entry, k)))

\* C26: in the add request every field is a defined string: guests is the
\* base-10 text of the entry's guest count ("0" when absent or zero), and
\* a missing name, email, attending or message is sent as the empty text.
C26_EveryFieldIsAString ==
  pc = "sent" =>
    \A k \in {k_name, k_email, k_attending, k_guests, k_message} :
      sentField(ret, k) = SentText(arg, k)

\* The same for the revisions that send the entry as query parameters.
QueryFieldsAreStrings ==
  (pc = "sent" /\ revision # "appPost") =>
    \A k \in {k_name, k_email, k_attending, k_guests, k_message} :
      sentField(ret, k) = SentText(arg, k)

\* The action a request names, in its query or in its JSON body.
ActionOf(req) ==
  LET fromBody == IF req.body \in {noBody, emptyBody, badJson} THEN Undefined
                  ELSE OptGet(req.body, k_action)
  IN Or(Or(Get(req.parameter, k_action), fromBody), EmptyStr)

UnknownAction(req) ==
  ActionOf(req).t = "string" /\ ToLowerCase(ActionOf(req).s) \notin {s_list, s_add}

\* A JSON response of the handler: the list, {ok: true}, or {error: text}.
JsonResponse(resp) ==
  \/ resp.t = "array"
  \/ resp = okBody
  \/ /\ resp.t = "object"
     /\ Get(resp, k_error).t = "string"
     /\ resp = errorBody(Get(resp, k_error).s)

\* C27: for any request (unknown or missing action, malformed or empty
\* POST body, an add with no entry, a failing spreadsheet) the handler
\* returns a JSON response and lets no exception escape, and a request with
\* an unknown action leaves the sheet's rows unchanged.
C27_EveryFailureIsAValue ==
  /\ [](served # noRequest => JsonResponse(served.resp))
  /\ [][UnknownAction(served'.req) => sheet' = sheet]_vars

\* The same of doGet and doPost of Code.gs, whose bodies are inside the try.
CodeGsAnswersJson ==
  (backend = "Code.gs" /\ served # noRequest) => JsonResponse(served.resp)

\* Whatever the handler, the one response that is no JSON value answers a
\* POST whose body does not parse and whose query names no action.
EscapesOnlyOnBadBody ==
  (served # noRequest /\ ~JsonResponse(served.resp)) =>
    /\ backend = "unified"
    /\ served.req.body \in {emptyBody, badJson, Null}

\* A request with an unknown or missing action leaves the sheet as it is.
UnknownActionWritesNothing ==
  [][UnknownAction(served'.req) => sheet' = sheet]_vars

\* C28: whenever the viewer is not admin the loaded list is empty, also
\* when a list request started in admin mode resolves after a logout; and
\* no step taken by a viewer who is not admin issues a list request unless
\* it is the login that makes them admin.
C28_GuestHoldsNoList ==
  /\ [](~isAdmin => rsvps = << >>)
  /\ [][(~isAdmin /\ ~isAdmin') => listRequests' = listRequests]_vars

\* No step of a viewer who is and stays no admin issues a list request.
GuestIssuesNoList ==
  [][(~isAdmin /\ ~isAdmin') => listRequests' = listRequests]_vars

\* C29: the loading flag is true exactly while at least one list request is
\* in flight.
C29_LoadingWhileInFlight == loading <=> lists # << >>

\* The guest count an entry was submitted with.
CountOf(entry) ==
  LET g == Get(entry, k_guests) IN
  IF g = EmptyStr THEN Num(0) ELSE IF g = Str(s_3) THEN Num(3) ELSE g

\* C30: from an empty sheet, after any sequence of accepted add requests
\* for valid entries, a list request followed by the client's normalization
\* yields one entry per add, in the order of the adds, each with the name,
\* email, attending, guest count and message that were submitted.
C30_AddThenList ==
  (pc = "listed" /\ lastList = "loaded") =>
    /\ Len(rsvps) = Len(arg.a)
    /\ \A i \in DOMAIN rsvps :
         /\ \A k \in {k_name, k_email, k_attending, k_message} :
              Get(rsvps[i], k) = Get(arg.a[i], k)
         /\ Get(rsvps[i], k_guests) = CountOf(arg.a[i])

\* Two different entries were added and listed.
C30_Witness ==
  /\ pc = "listed"
  /\ lastList = "loaded"
  /\ Len(arg.a) = 2
  /\ arg.a[1] # arg.a[2]
  /\ Get(arg.a[1], k_guests) = Str(s_3)

=============================================================================
